---------------------------- MODULE Spec2Model ----------------------------
(***************************************************************************)
(* Model of the move selection of YourStyleEngine (src/engine.py), of the  *)
(* table loader it is built from (src/trainer.py) and of the way the bot   *)
(* (src/lichess_bot.py) shares one engine between its game threads.        *)
(*                                                                         *)
(* Chess itself is abstract: a board is its position key, the sequence of  *)
(* its legal moves in generation order and its piece count.  The library   *)
(* calls the code makes (parse_san, legal_moves, analyse, play) are        *)
(* modelled by what they return to the code.                               *)
(***************************************************************************)
EXTENDS Integers, Sequences, FiniteSets, TLC

(***************************************************************************)
(* Bounds of the model.                                                    *)
(***************************************************************************)
\* Largest number of (notation, count) entries a table row holds.
MaxEntries == 2
\* Number of games the bot streams at the same time (stream_game threads).
NumGames == 2

(***************************************************************************)
(* Program constants.                                                      *)
(***************************************************************************)
DefaultDepth == 12
DefaultEndgameDepth == 20
DefaultEndgamePieceCount == 10
DefaultBlunderThreshold == 200
MateScore == 100000
MinAnalyseDepth == 4

(***************************************************************************)
(* Values.                                                                 *)
(***************************************************************************)
\* chess.Move values: three ordinary moves and Move.null().
NullMove == "0000"
Moves == {"a", "b", "c"}
\* Python's None.
None == "None"

\* Move notations found in tables: "sa" denotes move a, "sb" move b, and
\* "--" is the notation of the null move.  No notation denotes move c.
Sans == {"sa", "sb", "--"}
SanTarget == [s \in {"sa", "sb"} |-> IF s = "sb" THEN "b" ELSE "a"]
Counts == {3, 10}

Range(s) == {s[i] : i \in 1..Len(s)}

\* A chess.Board: its position key (board.fen()), its legal moves in
\* generation order, its piece count, its move stack, the side to move
\* (board.turn) and whether it is drawn with legal moves left (insufficient
\* material, seventy-five moves, fivefold repetition).
BoardOf(k, l, p, st, tn, dd) ==
  [key |-> k, legal |-> l, pieces |-> p, stack |-> st, turn |-> tn, dead |-> dd]

\* chess.Board(): the position a game starts from.
StartBoard ==
  BoardOf("mid", <<"c", "a", "b">>, DefaultEndgamePieceCount + 1, <<>>, "white", FALSE)

\* The boards pick_move is called with.
Boards ==
  { StartBoard,
    BoardOf("end", <<"a", "c">>, DefaultEndgamePieceCount, <<"x", "y", "z">>, "black", FALSE),
    BoardOf("over", <<>>, DefaultEndgamePieceCount + 1, <<"x", "y">>, "white", FALSE),
    BoardOf("novel", <<"b", "c">>, DefaultEndgamePieceCount, <<"x">>, "black", FALSE) }
Keys == {b.key : b \in Boards}
\* Position keys the table may hold; "novel" is never in a table.
TableKeys == {"mid", "end", "over"}

Entries == [san : Sans, count : Counts]
RECURSIVE RowsOfLen(_)
RowsOfLen(n) ==
  IF n = 0 THEN {<<>>}
  ELSE {Append(r, e) : r \in {q \in RowsOfLen(n - 1) : TRUE}, e \in Entries}
DistinctSans(r) == \A i, j \in 1..Len(r) : i # j => r[i].san # r[j].san
\* A row is a Python dict in insertion order: notations are distinct.
Rows == {r \in UNION {RowsOfLen(n) : n \in 0..MaxEntries} : DistinctSans(r)}

Threads == 1..NumGames

VARIABLES
  stats,      \* self.stats: position key -> row
  config,     \* self.config
  engine,     \* self.engine: None or the evaluator session
  inflight,   \* requests the session has received and not yet answered
  pc,         \* per thread: where its pick_move call stands
  board,      \* per thread: the board pick_move was called with
  tmp,        \* per thread: tmp_board, the scratch board of the analysis loop
  cands,      \* per thread: legal_candidates
  toEval,     \* per thread: to_eval
  idx,        \* per thread: index in to_eval of the candidate under analysis
  scored,     \* per thread: scored
  reqs,       \* per thread: the evaluator requests of this invocation
  result,     \* per thread: what pick_move returned or raised
  memo,       \* key -> result of the last completed deterministic call on it
  lastKey,    \* key of the last completed call whose board is in memo
  backing,    \* the JSON document at config.model_path
  built,      \* how __init__ ended
  program,    \* the entry point that runs: "offline", "bot", or None
  side,       \* per thread: the colour the engine plays in the thread's game
  exited,     \* how the program stopped using the engine, None while it runs
  proc,       \* the evaluator process: "none", "open" or "closed"
  chatCfg,    \* the "chat" value of config.json
  chatFile,   \* data/chat_state.json: game -> persisted chat state
  botColour,  \* per thread: the colour the bot has in the thread's game
  conn,       \* per thread: "open" while its stream_game call reads the stream
  connects,   \* per thread: the stream_game calls made for the thread's game
  chatState,  \* per thread: chat_state of the running stream_game call
  seen,       \* per thread: the last stream line stream_game handled
  openings,   \* per thread: how often the opening messages went out
  subm,       \* per thread: the call of make_move for the last handled line
  chats,      \* per thread: how often each chat message of its game went out
  filePc,     \* per thread: where its _save_chat_state or _clear_chat_state
              \* call stands
  fileData,   \* per thread: data, what that call read from the file
  rotFile,    \* data/challenge_rotation.json: the stored index
  rotIdx,     \* _get_rotation_index._idx, None while the attribute is unset
  pending,    \* pending_challenge_id
  nextTime,   \* next_challenge_time: "past" or "future"
  loop,       \* where challenge_loop stands
  loopEntry,  \* the rotation entry challenge_loop read for its challenge
  loopRes,    \* result, what challenge_user returned to challenge_loop
  open,       \* the bot's challenges the server holds open
  issued,     \* the number of challenges the bot has sent
  theirs,     \* a challenge of another player was accepted, its game not begun
  advancedBy, \* whose challenge began the game that last advanced the rotation
  declined,   \* the entry of the pending challenge last declined, until the
              \* next send or advance
  resent,     \* the first challenge sent after a decline, with the declined one
  fenToMoves, \* fen_to_moves of build_fen_stats, then the table main() saves
  trainBoard, \* the board of the game build_fen_stats reads, None between games
  mainline,   \* the mainline moves read so far, each with its position
  trainPc     \* where the trainer stands: "build", "built", "saved", "loaded"

\* What run_bot holds for its challenges.
chal == <<rotFile, rotIdx, pending, nextTime, loop, loopEntry, loopRes, open,
          issued, theirs, advancedBy, declined, resent>>

\* What stream_game holds for its games.
games == <<chatCfg, chatFile, botColour, conn, connects, chatState, seen,
           openings, subm, chats, filePc, fileData>>

\* What the trainer holds.
train == <<fenToMoves, trainBoard, mainline, trainPc>>

\* What the bot holds outside the engine.
net == <<games, chal, train>>

vars == <<stats, config, engine, inflight, pc, board, tmp, cands, toEval, idx,
          scored, reqs, result, memo, lastKey, backing, built, program, side,
          exited, proc, net>>

\* What the program around the engine holds.
run == <<program, exited, proc>>



(***************************************************************************)
(* The library calls of _from_your_stats, by what they return.             *)
(***************************************************************************)
\* board.parse_san(san): the move the notation denotes when that move is
\* legal on the board, Move.null() for "--", and ValueError otherwise.
ParseSan(b, san) ==
  IF san = "--" THEN [ok |-> TRUE, move |-> NullMove]
  ELSE IF san \in DOMAIN SanTarget /\ SanTarget[san] \in Range(b.legal)
       THEN [ok |-> TRUE, move |-> SanTarget[san]]
       ELSE [ok |-> FALSE, move |-> None]

\* move in board.legal_moves
IsLegal(b, m) == m \in Range(b.legal)

\* self.stats.get(fen): the row, or None for a key the table does not hold.
StatsGet(fen) ==
  IF fen \in DOMAIN stats THEN [found |-> TRUE, row |-> stats[fen]]
  ELSE [found |-> FALSE, row |-> <<>>]

\* not moves_stats: None or an empty dict.
NoStats(got) == ~got.found \/ got.row = <<>>

(***************************************************************************)
(* _from_your_stats, lines 83-94: the legal candidates in table order.     *)
(***************************************************************************)
\* Variant: every notation that parses is a candidate, legal or not.
RECURSIVE CandidatesUnchecked(_, _, _)
CandidatesUnchecked(b, row, i) ==
  IF i > Len(row) THEN <<>>
  ELSE LET p == ParseSan(b, row[i].san)
           rest == CandidatesUnchecked(b, row, i + 1)
       IN IF ~p.ok THEN rest
          ELSE <<[move |-> p.move, count |-> row[i].count]>> \o rest

\* Variant: the loop over the row ends at the first notation that does not
\* resolve (a break for the continue).
RECURSIVE CandidatesUntilUnresolved(_, _, _)
CandidatesUntilUnresolved(b, row, i) ==
  IF i > Len(row) THEN <<>>
  ELSE LET p == ParseSan(b, row[i].san)
           rest == CandidatesUntilUnresolved(b, row, i + 1)
       IN IF ~p.ok THEN <<>>
          ELSE IF ~IsLegal(b, p.move) THEN <<>>
          ELSE <<[move |-> p.move, count |-> row[i].count]>> \o rest

RECURSIVE CandidatesFrom(_, _, _)
CandidatesFrom(b, row, i) ==
  IF i > Len(row) THEN <<>>
  ELSE LET p == ParseSan(b, row[i].san)
           rest == CandidatesFrom(b, row, i + 1)
       IN IF ~p.ok THEN rest
          ELSE IF ~IsLegal(b, p.move) THEN rest
          ELSE <<[move |-> p.move, count |-> row[i].count]>> \o rest

LegalCandidates(b) ==
  LET got == StatsGet(b.key)
  IN IF NoStats(got) THEN <<>> ELSE CandidatesFrom(b, got.row, 1)

(***************************************************************************)
(* Python's max(seq, key=...): the first element with the largest key.     *)
(***************************************************************************)
RECURSIVE MaxCountFrom(_, _, _)
MaxCountFrom(s, i, best) ==
  IF i > Len(s) THEN best
  ELSE MaxCountFrom(s, i + 1, IF s[i].count > s[best].count THEN i ELSE best)

\* Variant: the last element with the largest count (a >= for the >).
RECURSIVE MaxCountLastFrom(_, _, _)
MaxCountLastFrom(s, i, best) ==
  IF i > Len(s) THEN best
  ELSE MaxCountLastFrom(s, i + 1, IF s[i].count >= s[best].count THEN i ELSE best)

MaxByCountIdxLast(s) == MaxCountLastFrom(s, 2, 1)

\* max(candidates, key=count), as an index into the sequence.
MaxByCountIdx(s) == MaxCountFrom(s, 2, 1)

RECURSIVE MaxScoreFrom(_, _, _)
MaxScoreFrom(s, i, best) ==
  IF i > Len(s) THEN best
  ELSE MaxScoreFrom(s, i + 1, IF s[i].score > s[best].score THEN i ELSE best)

\* max(scored, key=score), as an index into the sequence.
MaxByScoreIdx(s) == MaxScoreFrom(s, 2, 1)

(***************************************************************************)
(* list.sort(key=count, reverse=True): stable, equal counts keep their     *)
(* order.                                                                  *)
(***************************************************************************)
RECURSIVE InsertDesc(_, _, _)
InsertDesc(sorted, x, i) ==
  IF i > Len(sorted) THEN Append(sorted, x)
  ELSE IF sorted[i].count < x.count
       THEN SubSeq(sorted, 1, i - 1) \o <<x>> \o SubSeq(sorted, i, Len(sorted))
       ELSE InsertDesc(sorted, x, i + 1)

RECURSIVE SortFrom(_, _, _)
SortFrom(s, i, acc) ==
  IF i > Len(s) THEN acc ELSE SortFrom(s, i + 1, InsertDesc(acc, s[i], 1))

\* Variant: an ascending sort reversed, which turns equal counts around.
RECURSIVE InsertDescBeforeEqual(_, _, _)
InsertDescBeforeEqual(sorted, x, i) ==
  IF i > Len(sorted) THEN Append(sorted, x)
  ELSE IF sorted[i].count <= x.count
       THEN SubSeq(sorted, 1, i - 1) \o <<x>> \o SubSeq(sorted, i, Len(sorted))
       ELSE InsertDescBeforeEqual(sorted, x, i + 1)

RECURSIVE SortReversedFrom(_, _, _)
SortReversedFrom(s, i, acc) ==
  IF i > Len(s) THEN acc
  ELSE SortReversedFrom(s, i + 1, InsertDescBeforeEqual(acc, s[i], 1))

SortByCountDescUnstable(s) == SortReversedFrom(s, 1, <<>>)

SortByCountDesc(s) == SortFrom(s, 1, <<>>)

Max2(x, y) == IF x >= y THEN x ELSE y

\* Variant: every candidate is analysed.
TopCandidatesAll(sorted) == sorted

\* legal_candidates[: max(1, max_candidate_moves)]
TopCandidates(sorted) ==
  SubSeq(sorted, 1, IF Max2(1, config.max_candidate_moves) < Len(sorted)
                    THEN Max2(1, config.max_candidate_moves) ELSE Len(sorted))

(***************************************************************************)
(* Depths.                                                                 *)
(***************************************************************************)
\* _piece_count
PieceCount(b) == b.pieces

\* Variant: the endgame starts strictly below the threshold (a < for the <=).
StockfishDepthStrictlyBelow(b) ==
  IF b.pieces < config.endgame_piece_count
  THEN config.stockfish_endgame_depth
  ELSE config.stockfish_depth

\* _stockfish_depth_for_position
StockfishDepthForPosition(b) ==
  IF PieceCount(b) <= config.endgame_piece_count
  THEN config.stockfish_endgame_depth
  ELSE config.stockfish_depth

\* Variant: half the depth, without the minimum.
AnalyseDepthNoMinimum(b) == StockfishDepthForPosition(b) \div 2

\* chess.engine.Limit(depth=max(4, depth // 2))
AnalyseDepth(b) == Max2(MinAnalyseDepth, StockfishDepthForPosition(b) \div 2)

\* Variant: the best move is asked at the depth of a candidate analysis.
PlayDepthHalved(b) == AnalyseDepth(b)

\* chess.engine.Limit(depth=depth) of _from_stockfish
PlayDepth(b) == StockfishDepthForPosition(b)

(***************************************************************************)
(* Scores.  analyse answers with a score relative to the side to move on   *)
(* the analysed board, which is the opponent once the candidate is played. *)
(***************************************************************************)
Cp(v) == [kind |-> "cp", v |-> v]
Mate(n) == [kind |-> "mate", v |-> n]
\* chess.engine.MateGiven: the side whose score it is has delivered mate.
MateGiven == [kind |-> "mategiven", v |-> 0]
\* Score.__neg__: the negation of Mate(0) is MateGiven, and back.
Negate(sc) ==
  IF sc = Mate(0) THEN MateGiven
  ELSE IF sc = MateGiven THEN Mate(0)
  ELSE [kind |-> sc.kind, v |-> 0 - sc.v]

\* Variant: the score is taken as the evaluator gives it, relative to the
\* side to move on the analysed board.
PovOfSideToMove(sc) == sc

\* score_obj.pov(our_color): the analysed board's turn is not our_color.
Pov(sc) == Negate(sc)

\* Score.score(mate_score=100000)
ScoreValue(sc) ==
  IF sc.kind = "cp" THEN sc.v
  ELSE IF sc.kind = "mategiven" THEN MateScore
  ELSE IF sc.v > 0 THEN MateScore - sc.v ELSE (0 - MateScore) - sc.v

\* score_obj.pov(our_color).score(mate_score=100000)
ScoreCp(sc) == ScoreValue(Pov(sc))

(***************************************************************************)
(* What the evaluator can answer.                                          *)
(***************************************************************************)
\* engine.analyse: an exception, an info without "score", or a score.
Failure == [kind |-> "raise", v |-> 0]
NoScore == [kind |-> "noscore", v |-> 0]
AnalyseOutcomes ==
  {Failure, NoScore, Cp(-50), Cp(150), Cp(400), Mate(1), Mate(-1)}

\* engine.analyse, with the answer for a board on which the candidate has
\* delivered mate: mate in zero against the side to move.
ScoreOutcomes == AnalyseOutcomes \cup {Mate(0)}

\* engine.play: an exception, or a result whose move is None, a legal move
\* of the board, or Move.null() (a "bestmove 0000" answer).
PlayOutcomes(b) == {"raise", None, NullMove} \cup Range(b.legal)

(***************************************************************************)
(* The steps of pick_move.                                                 *)
(***************************************************************************)
Returned(m) == [kind |-> "return", move |-> m, error |-> None]
Raised(e) == [kind |-> "raise", move |-> None, error |-> e]
NoResult == [kind |-> "none", move |-> None, error |-> None]

\* Variant: the last legal move for the first.
LastResortLast(b) ==
  IF b.legal = <<>> THEN Raised("ValueError") ELSE Returned(b.legal[Len(b.legal)])

\* pick_move, lines 71-75: the first legal move, or ValueError.
LastResort(b) ==
  IF b.legal = <<>> THEN Raised("ValueError") ELSE Returned(b.legal[1])

\* Variant: the table alone decides only without an evaluator and with
\* filtering disabled (an "and" for the "or").
StatsOnlyWhenBoth == engine = None /\ ~config.use_stockfish_filter

\* _from_your_stats, line 98: the table alone decides.
StatsOnly == engine = None \/ ~config.use_stockfish_filter

\* pick_move, line 66, and _from_stockfish, line 159: the evaluator is asked
\* for its best move.
AsksStockfish == config.use_stockfish_fallback /\ engine # None

\* Variant: no try/except around analyse, its exception leaves pick_move.
OnAnalyseUncaught(sc, cand, out) ==
  IF out = Failure THEN [raised |-> TRUE, scored |-> sc]
  ELSE IF out = NoScore THEN [raised |-> FALSE, scored |-> sc]
  ELSE [raised |-> FALSE,
        scored |-> Append(sc, [move |-> cand.move, count |-> cand.count,
                               score |-> ScoreCp(out)])]

\* Variant: a candidate whose analysis failed is scored 0.
OnAnalyseFailureAsZero(sc, cand, out) ==
  [raised |-> FALSE,
   scored |-> Append(sc, [move |-> cand.move, count |-> cand.count,
                          score |-> IF out \in {Failure, NoScore} THEN 0
                                    ELSE ScoreCp(out)])]

\* _from_your_stats, lines 114-126: what an answer of analyse does to scored.
\* An exception is caught and the candidate skipped.
OnAnalyse(sc, cand, out) ==
  IF out = Failure THEN [raised |-> FALSE, scored |-> sc]
  ELSE IF out = NoScore THEN [raised |-> FALSE, scored |-> sc]
  ELSE [raised |-> FALSE,
        scored |-> Append(sc, [move |-> cand.move, count |-> cand.count,
                               score |-> ScoreCp(out)])]

\* Variant: a candidate exactly at the threshold is dropped (a > for the >=).
FilteredStrictly(sc) ==
  LET best_eval == sc[MaxByScoreIdx(sc)].score
      threshold == best_eval - config.blunder_threshold_cp
  IN SelectSeq(sc, LAMBDA x : x.score > threshold)

\* Variant: the threshold lies above the best score (a + for the -).
FilteredAboveBest(sc) ==
  LET best_eval == sc[MaxByScoreIdx(sc)].score
      threshold == best_eval + config.blunder_threshold_cp
  IN SelectSeq(sc, LAMBDA x : x.score >= threshold)

\* _from_your_stats, lines 133-137: the candidates that pass the threshold.
Filtered(sc) ==
  LET best_eval == sc[MaxByScoreIdx(sc)].score
      threshold == best_eval - config.blunder_threshold_cp
  IN SelectSeq(sc, LAMBDA x : x.score >= threshold)

\* Variant: the most played scored candidate, the threshold ignored.
ChooseScoredUnfiltered(sc) == sc[MaxByCountIdx(sc)]

\* _from_your_stats, lines 139-146: the scored candidate whose move is
\* returned.
ChooseScored(sc) ==
  IF Filtered(sc) = <<>> THEN sc[MaxByScoreIdx(sc)]
  ELSE Filtered(sc)[MaxByCountIdx(Filtered(sc))]

SelectFiltered(sc) == ChooseScored(sc).move

\* _from_your_stats, lines 128-146: after the last candidate.
AfterAnalysis(c, sc) ==
  IF sc = <<>> THEN c[MaxByCountIdx(c)].move ELSE SelectFiltered(sc)

\* _from_stockfish, lines 162-168, then pick_move, lines 68-75.
OnPlay(b, out) ==
  IF out = "raise" THEN LastResort(b)
  ELSE IF out = None THEN LastResort(b)
  ELSE Returned(out)

\* No board: tmp_board outside the analysis loop.
NoBoard == BoardOf("none", <<>>, 0, <<>>, "white", FALSE)

Opponent(colour) == IF colour = "white" THEN "black" ELSE "white"

\* board.copy(stack=False): a new board with the position and no move stack.
Copy(b) == [b EXCEPT !.stack = <<>>]

\* board.push(move): the position after the move, with the move on the
\* stack and the other side to move.  Its legal moves, the replies, are not
\* modelled.
Push(b, m) ==
  [b EXCEPT !.key = "after", !.legal = <<>>, !.stack = Append(b.stack, m),
            !.turn = Opponent(b.turn)]

\* Variant: the candidate is pushed on the caller's board, no copy taken.
PushOnCaller(b, m) == [caller |-> Push(b, m), tmp |-> Push(b, m)]

\* _from_your_stats, lines 112-113: the caller's board and tmp_board after
\* the candidate is pushed on a copy.
PushOnCopy(b, m) == [caller |-> b, tmp |-> Push(Copy(b), m)]

\* The requests pick_move makes, each with the kind of answer it got.
AnalyseRequest(b, cand) ==
  [op |-> "analyse", depth |-> AnalyseDepth(b), move |-> cand.move,
   answer |-> "pending"]
PlayRequest(b) ==
  [op |-> "play", depth |-> PlayDepth(b), move |-> None, answer |-> "pending"]

AnswerKind(out) ==
  IF out = Failure THEN "raise" ELSE IF out = NoScore THEN "noscore" ELSE "score"
PlayAnswerKind(out) ==
  IF out = "raise" THEN "raise" ELSE IF out = None THEN "none" ELSE "move"
Answered(rs, kind) == [rs EXCEPT ![Len(rs)].answer = kind]
\* The best-move request with its answer and, when the answer is a move,
\* result.move.
PlayAnswered(rs, out) ==
  [rs EXCEPT ![Len(rs)].answer = PlayAnswerKind(out),
             ![Len(rs)].move = IF PlayAnswerKind(out) = "move" THEN out ELSE None]

\* pick_move from its call to its first evaluator request, or to its end
\* when it makes none.
StartPick(b) ==
  LET c == LegalCandidates(b)
      sorted == SortByCountDesc(c)
      top == TopCandidates(sorted)
      blank == [pc |-> "done", board |-> b, tmp |-> NoBoard, cands |-> c,
                toEval |-> <<>>, idx |-> 0, scored |-> <<>>, reqs |-> <<>>,
                result |-> NoResult]
  IN IF c = <<>>
     THEN IF AsksStockfish
          THEN [blank EXCEPT !.pc = "play", !.reqs = <<PlayRequest(b)>>]
          ELSE [blank EXCEPT !.result = LastResort(b)]
     ELSE IF StatsOnly
          THEN [blank EXCEPT !.result = Returned(c[MaxByCountIdx(c)].move)]
          ELSE [blank EXCEPT !.pc = "analyse", !.cands = sorted,
                             !.toEval = top, !.idx = 1,
                             !.board = PushOnCopy(b, top[1].move).caller,
                             !.tmp = PushOnCopy(b, top[1].move).tmp,
                             !.reqs = <<AnalyseRequest(b, top[1])>>]

Sent(p) == IF p \in {"analyse", "play"} THEN 1 ELSE 0

\* engine.pick_move(board) is called by thread t.  What the caller does to
\* its own side, and to what it holds outside the engine, is the caller's.
PickMove(t, b) ==
  /\ pc[t] = "idle"
  /\ LET s == StartPick(b)
     IN /\ pc' = [pc EXCEPT ![t] = s.pc]
        /\ board' = [board EXCEPT ![t] = s.board]
        /\ tmp' = [tmp EXCEPT ![t] = s.tmp]
        /\ cands' = [cands EXCEPT ![t] = s.cands]
        /\ toEval' = [toEval EXCEPT ![t] = s.toEval]
        /\ idx' = [idx EXCEPT ![t] = s.idx]
        /\ scored' = [scored EXCEPT ![t] = s.scored]
        /\ reqs' = [reqs EXCEPT ![t] = s.reqs]
        /\ result' = [result EXCEPT ![t] = s.result]
        /\ inflight' = inflight + Sent(s.pc)
  /\ UNCHANGED <<stats, config, engine, memo, lastKey, backing, built, run>>

\* engine.analyse answers thread t; the loop goes on to the next candidate
\* or, after the last, to the choice.
AnalyseReturns(t, out) ==
  /\ pc[t] = "analyse"
  /\ LET r == OnAnalyse(scored[t], toEval[t][idx[t]], out)
         last == idx[t] = Len(toEval[t])
     IN /\ scored' = [scored EXCEPT ![t] = r.scored]
        /\ IF r.raised
           THEN /\ pc' = [pc EXCEPT ![t] = "done"]
                /\ result' = [result EXCEPT ![t] = Raised("EngineError")]
                /\ inflight' = inflight - 1
                /\ reqs' = [reqs EXCEPT ![t] = Answered(reqs[t], AnswerKind(out))]
                /\ UNCHANGED <<idx, board, tmp>>
           ELSE IF last
           THEN /\ pc' = [pc EXCEPT ![t] = "done"]
                /\ result' = [result EXCEPT
                                ![t] = Returned(AfterAnalysis(cands[t], r.scored))]
                /\ inflight' = inflight - 1
                /\ reqs' = [reqs EXCEPT ![t] = Answered(reqs[t], AnswerKind(out))]
                /\ UNCHANGED <<idx, board, tmp>>
           ELSE /\ idx' = [idx EXCEPT ![t] = idx[t] + 1]
                /\ board' = [board EXCEPT
                               ![t] = PushOnCopy(board[t], toEval[t][idx[t] + 1].move).caller]
                /\ tmp' = [tmp EXCEPT
                             ![t] = PushOnCopy(board[t], toEval[t][idx[t] + 1].move).tmp]
                /\ reqs' = [reqs EXCEPT
                              ![t] = Append(Answered(reqs[t], AnswerKind(out)),
                                            AnalyseRequest(board[t], toEval[t][idx[t] + 1]))]
                /\ UNCHANGED <<pc, result, inflight>>
  /\ UNCHANGED <<stats, config, engine, cands, toEval, memo, lastKey, backing,
                 built, side, run, net>>

\* engine.play answers thread t.
PlayReturns(t, out) ==
  /\ pc[t] = "play"
  /\ pc' = [pc EXCEPT ![t] = "done"]
  /\ result' = [result EXCEPT ![t] = OnPlay(board[t], out)]
  /\ inflight' = inflight - 1
  /\ reqs' = [reqs EXCEPT ![t] = PlayAnswered(reqs[t], out)]
  /\ UNCHANGED <<stats, config, engine, board, tmp, cands, toEval, idx, scored,
                 memo, lastKey, backing, built, side, run, net>>

\* The board of a thread that is not in pick_move.
AnyBoard == StartBoard

\* The configurations with which pick_move returns the same move for the
\* same board whatever the evaluator does.
Deterministic(b) ==
  engine = None \/ (~config.use_stockfish_filter /\ LegalCandidates(b) # <<>>)

\* pick_move hands its result to its caller, thread t, whose board is b
\* from then on.  What the caller holds outside the engine is the caller's.
ReturnTo(t, b) ==
  /\ pc[t] = "done"
  /\ pc' = [pc EXCEPT ![t] = "idle"]
  /\ memo' = IF Deterministic(board[t])
             THEN [memo EXCEPT ![board[t].key] = result[t]]
             ELSE memo
  /\ lastKey' = IF Deterministic(board[t]) THEN board[t].key ELSE lastKey
  /\ board' = [board EXCEPT ![t] = b]
  /\ tmp' = [tmp EXCEPT ![t] = NoBoard]
  /\ cands' = [cands EXCEPT ![t] = <<>>]
  /\ toEval' = [toEval EXCEPT ![t] = <<>>]
  /\ idx' = [idx EXCEPT ![t] = 0]
  /\ scored' = [scored EXCEPT ![t] = <<>>]
  /\ reqs' = [reqs EXCEPT ![t] = <<>>]
  /\ result' = [result EXCEPT ![t] = NoResult]
  /\ UNCHANGED <<stats, config, engine, inflight, backing, built, side, run>>

\* The caller drops the board.
Return(t) == ReturnTo(t, AnyBoard) /\ UNCHANGED net

(***************************************************************************)
(* What the bot holds for its games (src/lichess_bot.py).  A thread streams *)
(* one game, and the thread's number stands for the game id.                *)
(***************************************************************************)
\* The largest number of messages an "opening" list holds.
MaxOpening == 3
\* The largest number of stream_game calls made for one game (reconnects).
MaxConnects == 2

\* The "opening" value of the chat settings: absent, a non-blank string, or
\* a list of n non-blank strings.
OpeningOf(t, n) == [t |-> t, n |-> n]
NoOpening == OpeningOf("none", 0)
\* The messages _process_chat sends once in a game, and the field of
\* chat_state that records each.
OneShots ==
  {"we_material_up", "position_good", "position_bad", "middle_game_once",
   "opponent_bad_move", "opponent_captured_pawn", "opponent_material_up"}
FlagOf(m) ==
  CASE m = "we_material_up" -> "sent_we_material_up"
    [] m = "position_good" -> "sent_position_good"
    [] m = "position_bad" -> "sent_position_bad"
    [] m = "middle_game_once" -> "sent_middle_game"
    [] m = "opponent_bad_move" -> "sent_opponent_bad_move"
    [] m = "opponent_captured_pawn" -> "sent_first_capture"
    [] m = "opponent_material_up" -> "sent_opponent_material_up"
\* All messages that are counted: the one-shot ones and the check messages.
Messages == OneShots \cup {"check"}
\* The largest number of check messages _process_chat sends in a game.
CheckLimit == 3

\* The "chat" value of config.json: its opening, the length of its "check"
\* list, the one-shot messages it gives as non-blank strings
\* (opponent_material_up also as a list), and whether it configures any
\* other message.
ChatConfigs ==
  [opening : {NoOpening, OpeningOf("str", 1)}
               \cup {OpeningOf("list", n) : n \in 0..MaxOpening},
   check : {0},
   once : {{}},
   other : BOOLEAN]
NoChat == [opening |-> NoOpening, check |-> 0, once |-> {}, other |-> FALSE]

\* chat_state with its defaults, lines 718-730: the fields that decide
\* whether a message goes out.
DefaultChatState ==
  [sent_bol_sans |-> FALSE,
   check_count |-> 0,
   sent_middle_game |-> FALSE,
   sent_opponent_bad_move |-> FALSE,
   sent_first_capture |-> FALSE,
   sent_we_material_up |-> FALSE,
   sent_opponent_material_up |-> FALSE,
   sent_position_good |-> FALSE,
   sent_position_bad |-> FALSE]

\* An entry of data/chat_state.json, and no entry.
EntryOf(st) == [present |-> TRUE, state |-> st]
NoEntry == [present |-> FALSE, state |-> DefaultChatState]

\* The "status" of a game state: the game goes on, or one of the values
\* _process_chat takes for the end of the game.
TerminalStatuses == {"mate", "resign", "draw", "stalemate", "outoftime"}
Statuses == {"started"} \cup TerminalStatuses

\* A handled stream line: its type, the board rebuilt from its moves and its
\* status.
NoEvent == [type |-> "none", board |-> NoBoard, status |-> "none"]

\* No call of make_move.
NoSubmission ==
  [made |-> FALSE, board |-> NoBoard, move |-> None, status |-> "none"]

\* The length of CHALLENGE_ROTATION.  An entry is its place in the list,
\* from 0.
RotationLen == 23
\* The largest number of challenges the bot sends.
MaxChallenges == 3

\* data/challenge_rotation.json: missing or unreadable, or a document with
\* an integer under "index".
Unreadable == [readable |-> FALSE, index |-> 0]
Stored(i) == [readable |-> TRUE, index |-> i]
StoredIndexes == {0 - 1, 0, RotationLen - 1, RotationLen}
RotationFiles == {Unreadable} \cup {Stored(i) : i \in StoredIndexes}

\* _get_rotation_index._idx: the attribute is unset, or holds an integer.
Unset == [set |-> FALSE, v |-> 0]
Cached(i) == [set |-> TRUE, v |-> i]

\* pending_challenge_id: None, the empty string, or the id of a challenge.
\* The n-th challenge the bot sends has id n.
NoId == [kind |-> "none", n |-> 0]
EmptyId == [kind |-> "empty", n |-> 0]
IdOf(n) == [kind |-> "id", n |-> n]

\* No entry: a place past the end of the list.
NoEntryRead == RotationLen
NoResend == [declined |-> NoEntryRead, sent |-> NoEntryRead]

\* run_bot before challenge_loop starts, lines 893-896; no rotation file.
ChallengesAtStart ==
  /\ rotIdx = Unset
  /\ pending = NoId
  /\ nextTime = "past"
  /\ loop = "top"
  /\ loopEntry = NoEntryRead
  /\ loopRes = NoId
  /\ open = {}
  /\ issued = 0
  /\ theirs = FALSE
  /\ advancedBy = "none"
  /\ declined = NoEntryRead
  /\ resent = NoResend

NoChallenges == rotFile = Unreadable /\ ChallengesAtStart

\* data/chat_state.json without entries.
EmptyFile == [t \in Threads |-> NoEntry]

\* No thread is in a call of _save_chat_state or _clear_chat_state.
NoFileCall ==
  /\ filePc = [t \in Threads |-> "idle"]
  /\ fileData = [t \in Threads |-> EmptyFile]

\* The trainer does not run.
NoTraining ==
  /\ fenToMoves = <<>>
  /\ trainBoard = None
  /\ mainline = <<>>
  /\ trainPc = "build"

\* No game is streamed.
NoStreams ==
  /\ chatCfg = NoChat
  /\ chatFile = [t \in Threads |-> NoEntry]
  /\ botColour = [t \in Threads |-> None]
  /\ conn = [t \in Threads |-> "off"]
  /\ connects = [t \in Threads |-> 0]
  /\ chatState = [t \in Threads |-> DefaultChatState]
  /\ seen = [t \in Threads |-> NoEvent]
  /\ openings = [t \in Threads |-> 0]
  /\ subm = [t \in Threads |-> NoSubmission]
  /\ chats = [t \in Threads |-> [m \in Messages |-> 0]]
  /\ NoFileCall

\* The bot has neither a game nor a challenge.
NoGames == NoStreams /\ NoChallenges

(***************************************************************************)
(* The engine after __init__.                                              *)
(***************************************************************************)
\* stockfish_depth and stockfish_endgame_depth: the defaults, and a shallow
\* pair.
DepthChoices == {<<DefaultDepth, DefaultEndgameDepth>>, <<5, 7>>}

Configs ==
  { [ stockfish_path |-> sp,
      stockfish_depth |-> d[1],
      stockfish_endgame_depth |-> d[2],
      endgame_piece_count |-> DefaultEndgamePieceCount,
      use_stockfish_filter |-> f,
      max_candidate_moves |-> m,
      blunder_threshold_cp |-> th,
      use_stockfish_fallback |-> fb ] :
    sp \in {None, "stockfish"}, d \in DepthChoices, f \in BOOLEAN, m \in {0, 2},
    th \in {-50, DefaultBlunderThreshold}, fb \in BOOLEAN }

\* Tables: every key the table holds has the same row.
Tables == {[k \in TableKeys |-> r] : r \in Rows}

InitLocals ==
  /\ inflight = 0
  /\ pc = [t \in Threads |-> "idle"]
  /\ board = [t \in Threads |-> AnyBoard]
  /\ tmp = [t \in Threads |-> NoBoard]
  /\ side = [t \in Threads |-> None]
  /\ exited = None
  /\ cands = [t \in Threads |-> <<>>]
  /\ toEval = [t \in Threads |-> <<>>]
  /\ idx = [t \in Threads |-> 0]
  /\ scored = [t \in Threads |-> <<>>]
  /\ reqs = [t \in Threads |-> <<>>]
  /\ result = [t \in Threads |-> NoResult]
  /\ memo = [k \in Keys |-> NoResult]
  /\ lastKey = None
  /\ NoGames
  /\ NoTraining

\* __init__, lines 45-48: the session is opened when a path is configured.
SessionFor(c) == IF c.stockfish_path # None THEN "stockfish" ELSE None

\* The evaluator process of a session.
ProcFor(session) == IF session # None THEN "open" ELSE "none"

\* The state after a construction that loaded the table.
Constructed ==
  /\ engine = SessionFor(config)
  /\ proc = ProcFor(engine)
  /\ backing = None
  /\ built = "ok"
  /\ InitLocals

Init ==
  /\ stats \in Tables
  /\ config \in Configs
  /\ program = None
  /\ Constructed

\* One caller, as in offline play.
Next ==
  \/ \E b \in Boards : PickMove(1, b) /\ UNCHANGED <<side, net>>
  \/ \E out \in AnalyseOutcomes : AnalyseReturns(1, out)
  \/ \E out \in PlayOutcomes(board[1]) : PlayReturns(1, out)
  \/ Return(1)

Spec == Init /\ [][Next]_vars

\* engine.analyse and engine.play are blocking calls: under the assumption
\* that the evaluator answers every request, a pending request is answered.
EvaluatorAnswers ==
  /\ WF_vars(\E out \in AnalyseOutcomes : AnalyseReturns(1, out))
  /\ WF_vars(\E out \in PlayOutcomes(board[1]) : PlayReturns(1, out))

SpecLive == Init /\ [][Next]_vars /\ EvaluatorAnswers

(***************************************************************************)
(* The candidate filter alone: an evaluator is configured, filtering is    *)
(* enabled and fallback disabled, under a negative, the default and a very *)
(* large blunder_threshold_cp; the evaluator may also answer mate in zero. *)
(***************************************************************************)
ScoreConfigs ==
  {c \in Configs : /\ c.stockfish_path # None
                   /\ c.stockfish_depth = DefaultDepth
                   /\ c.use_stockfish_filter
                   /\ ~c.use_stockfish_fallback
                   /\ c.max_candidate_moves = 2}
    \cup
  {[c EXCEPT !.blunder_threshold_cp = 2 * MateScore] :
     c \in {d \in Configs : /\ d.stockfish_path # None
                            /\ d.stockfish_depth = DefaultDepth
                            /\ d.use_stockfish_filter
                            /\ ~d.use_stockfish_fallback
                            /\ d.max_candidate_moves = 2
                            /\ d.blunder_threshold_cp = DefaultBlunderThreshold}}

InitScore ==
  /\ stats \in Tables
  /\ config \in ScoreConfigs
  /\ program = None
  /\ Constructed

NextScore ==
  \/ \E b \in Boards : PickMove(1, b) /\ UNCHANGED <<side, net>>
  \/ \E out \in ScoreOutcomes : AnalyseReturns(1, out)
  \/ Return(1)

SpecScore == InitScore /\ [][NextScore]_vars

(***************************************************************************)
(* The bot: run_bot starts one stream_game thread per game and gives every *)
(* thread the same engine.                                                 *)
(***************************************************************************)
\* board.is_game_over(): no legal move (checkmate, stalemate) or a draw that
\* needs no claim.
IsGameOver(b) == b.legal = <<>> \/ b.dead

\* A board drawn by insufficient material, with a legal move left.
DeadBoard == BoardOf("dead", <<"a">>, 2, <<"x">>, "white", TRUE)

\* The boards a game goes through.
GameBoards == Boards \cup {DeadBoard}

\* The colours, and my_is_white: "white" for True, "black" for False, None
\* when the bot is no player of the game.
Colours == {"white", "black"}
Sides == Colours \cup {None}

\* Variant of the guard of _play_if_our_turn: without the game-over test.
OurTurnUnlessOver(b, my_is_white) == my_is_white # None /\ b.turn = my_is_white

\* Variant of the guard of _play_if_our_turn: without the test of the side
\* to move.
OurTurnEitherSide(b, my_is_white) == ~(IsGameOver(b) \/ my_is_white = None)

\* _play_if_our_turn, lines 856-861: the guard under which pick_move is
\* called.
OurTurn(b, my_is_white) ==
  /\ ~(IsGameOver(b) \/ my_is_white = None)
  /\ b.turn = my_is_white

\* _play_if_our_turn of game thread t, up to the first evaluator request of
\* pick_move; nothing happens when the guard fails.
PlayIfOurTurn(t, b, my_is_white) ==
  /\ pc[t] = "idle"
  /\ IF OurTurn(b, my_is_white)
     THEN PickMove(t, b)
     ELSE UNCHANGED <<stats, config, engine, inflight, pc, board, tmp, cands,
                      toEval, idx, scored, reqs, result, memo, lastKey, backing,
                      built, run>>

\* stream_game, lines 757-816: a gameFull line sets my_is_white and the board.
GameFull(t, b, my_is_white) ==
  /\ side' = [side EXCEPT ![t] = my_is_white]
  /\ PlayIfOurTurn(t, b, my_is_white)
  /\ UNCHANGED net

\* stream_game, lines 818-839: a gameState line sets the board.
GameState(t, b) ==
  /\ UNCHANGED <<side, net>>
  /\ PlayIfOurTurn(t, b, side[t])

\* _play_if_our_turn, lines 864-869: the move goes to the server.
MakeMove(t) ==
  /\ result[t].kind = "return"
  /\ Return(t)

\* How the engine object ends: __del__ runs and engine.quit() succeeds, __del__
\* runs and quit() raises, or __del__ does not run (the object is still
\* referenced by a game thread, or alive when the interpreter exits).
Finals == {"quit", "quit_raised", "no_del"}

\* __del__, lines 50-55: the evaluator process afterwards.
Del(p, fin) == IF p = "open" /\ fin = "quit" THEN "closed" ELSE p

\* run_bot stops: the event stream ends, Ctrl+C (lines 994-997), or an
\* exception of the event loop.  Nothing in run_bot releases the engine.
BotStops(how, fin) ==
  /\ exited = None
  /\ exited' = how
  /\ proc' = Del(proc, fin)
  /\ UNCHANGED <<stats, config, engine, inflight, pc, board, tmp, cands, toEval,
                 idx, scored, reqs, result, memo, lastKey, backing, built,
                 program, side, net>>

BotExits == {"stream_end", "interrupt", "error"}

\* The bot's configuration keeps the default depths, candidate limit and
\* threshold; its table rows hold at most one entry.
BotConfigs ==
  {c \in Configs : /\ c.stockfish_depth = DefaultDepth
                   /\ c.max_candidate_moves = 2
                   /\ c.blunder_threshold_cp = DefaultBlunderThreshold}
BotTables == {tb \in Tables : \A k \in TableKeys : Len(tb[k]) <= 1}

InitBot ==
  /\ stats \in BotTables
  /\ config \in BotConfigs
  /\ program = "bot"
  /\ Constructed

\* The game threads of the bot.
GameThread(t) ==
  \/ \E b \in GameBoards, s \in Sides : GameFull(t, b, s)
  \/ \E b \in GameBoards : GameState(t, b)
  \/ \E out \in AnalyseOutcomes : AnalyseReturns(t, out)
  \/ \E out \in PlayOutcomes(board[t]) : PlayReturns(t, out)
  \/ MakeMove(t)

NextBot ==
  /\ exited = None
  /\ \/ \E t \in Threads : GameThread(t)
     \/ \E how \in BotExits, fin \in Finals : BotStops(how, fin)

SpecBot == InitBot /\ [][NextBot]_vars

(***************************************************************************)
(* stream_game: one game from the call of stream_game to the end of its    *)
(* stream, with the chat state it keeps in a file and the moves it sends.  *)
(***************************************************************************)
\* _load_chat_config: a string opening becomes a list of one message.
LoadChatConfig(raw) ==
  [raw EXCEPT !.opening = IF raw.opening.t = "str" THEN OpeningOf("list", 1)
                          ELSE raw.opening]

\* not chat: the loaded settings are an empty dict.
ChatEmpty(c) == c.opening.t = "none" /\ c.check = 0 /\ c.once = {} /\ ~c.other

\* The truth value of chat.get("opening"): None and [] are false.
Truthy(opening) == opening.t # "none" /\ opening.n > 0

\* A stream_game call that starts from the defaults whatever the file holds.
LoadChatStateDefaults(f, t) == DefaultChatState

\* _load_chat_state and line 731: the defaults, overridden by the entry of
\* the game.
LoadChatState(f, t) ==
  IF f[t].present THEN f[t].state ELSE DefaultChatState

\* _save_chat_state: data[game_id] is written.
SaveChatState(f, t, st) == [f EXCEPT ![t] = EntryOf(st)]

\* _clear_chat_state: data.pop(game_id, None).
ClearChatState(f, t) == [f EXCEPT ![t] = NoEntry]

\* The lines a game stream carries: the board rebuilt from the moves and the
\* status, which is "mate" or "stalemate" exactly when no move is legal and
\* "draw" on a board drawn by material.
Consistent(b, st) ==
  /\ b.legal = <<>> <=> st \in {"mate", "stalemate"}
  /\ b.dead => st = "draw"
\* What a line fulfils of the conditions _process_chat puts on the position,
\* the move count, the history kept in chat_state and the random draw,
\* apart from the tests of check_count and of the sent_ flags:
\*   "check"            board.is_check(), line 595
\*   "material_up_kept" lines 609-617, an advantage of 2 kept for 3 moves
\*   "material_good"    curr_material >= 3, line 625
\*   "material_bad"     curr_material <= -3, line 631
\*   "middle_game"      lines 640-646 but for messages sent in this call
\*   "opponent_up_kept" lines 662-666, a deficit of 2 kept for 3 moves
\*   "bad_move"         lines 686-687
\*   "first_capture"    lines 695-697
Facts ==
  {"check", "material_up_kept", "material_good", "material_bad", "middle_game",
   "opponent_up_kept", "bad_move", "first_capture"}
\* The lines of a game whose position fulfils none of them.
GameEvents ==
  {ev \in [board : GameBoards, status : Statuses, facts : {{}}] :
     Consistent(ev.board, ev.status)}

\* _process_chat, line 550: game_ended.
GameEnded(b, st) == IsGameOver(b) \/ st \in TerminalStatuses

\* stream_game, lines 786-792: the opening messages are due.
OpeningDue(c, my_is_white, st, b) ==
  /\ Truthy(c.opening)
  /\ my_is_white # None
  /\ ~st.sent_bol_sans
  /\ Len(b.stack) = 0

\* stream_game, lines 793-802: the number of opening messages sent.
OpeningSent(c, my_is_white, st, b) ==
  IF ~OpeningDue(c, my_is_white, st, b) THEN 0
  ELSE IF c.opening.t = "list"
       THEN (IF c.opening.n < 3 THEN c.opening.n ELSE 3)
       ELSE 1

\* stream_game, lines 793-805: chat_state after the opening messages.
AfterOpening(c, my_is_white, st, b) ==
  LET s1 == IF OpeningDue(c, my_is_white, st, b) /\ c.opening.t = "str"
            THEN [st EXCEPT !.sent_bol_sans = TRUE]
            ELSE st
  IN IF c.opening.t = "list" /\ c.opening.n >= 3
     THEN [s1 EXCEPT !.sent_bol_sans = TRUE]
     ELSE s1

\* _process_chat, lines 541-569: what it does to the file.
ProcessChat(f, t, c, my_is_white, b, st) ==
  IF ChatEmpty(c) \/ my_is_white = None THEN f
  ELSE IF GameEnded(b, st) THEN ClearChatState(f, t)
  ELSE f

\* _process_chat, line 547: the last move was the bot's.
LastWasOurs(b, my_is_white) == b.turn # my_is_white

\* _process_chat, lines 541-551: it returns before the messages of the
\* running game.
NoGameChat(c, my_is_white, b, status) ==
  ChatEmpty(c) \/ my_is_white = None \/ GameEnded(b, status)

\* _process_chat, lines 593-651: the messages sent after a move of the bot.
AfterOurMove(c, facts, st) ==
  LET check == /\ "check" \in facts
               /\ st.check_count < c.check
               /\ st.check_count < CheckLimit
      up == /\ "material_up_kept" \in facts
            /\ ~st.sent_we_material_up
            /\ "we_material_up" \in c.once
      good_branch == "material_good" \in facts /\ ~st.sent_position_good
      good == good_branch /\ "position_good" \in c.once
      bad == /\ ~good_branch
             /\ "material_bad" \in facts /\ ~st.sent_position_bad
             /\ "position_bad" \in c.once
      middle == /\ "middle_game" \in facts
                /\ ~st.sent_middle_game
                /\ ~(check \/ up \/ good \/ bad)
                /\ "middle_game_once" \in c.once
  IN {m \in Messages : \/ m = "check" /\ check
                       \/ m = "we_material_up" /\ up
                       \/ m = "position_good" /\ good
                       \/ m = "position_bad" /\ bad
                       \/ m = "middle_game_once" /\ middle}

\* _process_chat, lines 653-704: the messages sent after a move of the
\* opponent.
AfterTheirMove(c, facts, st) ==
  LET up == /\ "opponent_up_kept" \in facts
            /\ ~st.sent_opponent_material_up
            /\ "opponent_material_up" \in c.once
      bad == /\ "bad_move" \in facts
             /\ ~st.sent_opponent_bad_move
             /\ "opponent_bad_move" \in c.once
      capture == /\ "first_capture" \in facts
                 /\ ~st.sent_first_capture
                 /\ "opponent_captured_pawn" \in c.once
  IN {m \in Messages : \/ m = "opponent_material_up" /\ up
                       \/ m = "opponent_bad_move" /\ bad
                       \/ m = "opponent_captured_pawn" /\ capture}

\* _process_chat: the messages of the running game it sends.
ChatSent(c, my_is_white, b, status, facts, st) ==
  IF NoGameChat(c, my_is_white, b, status) THEN {}
  ELSE IF LastWasOurs(b, my_is_white) THEN AfterOurMove(c, facts, st)
  ELSE AfterTheirMove(c, facts, st)

\* _process_chat: chat_state when it returns.  A flag is set where its
\* message is sent; sent_opponent_material_up is set at line 675 whether or
\* not a message is configured.
ChatStateAfter(c, my_is_white, b, status, facts, st) ==
  LET sent == ChatSent(c, my_is_white, b, status, facts, st)
      flagged ==
        {FlagOf(m) : m \in sent \ {"check"}}
          \cup (IF /\ ~NoGameChat(c, my_is_white, b, status)
                   /\ ~LastWasOurs(b, my_is_white)
                   /\ "opponent_up_kept" \in facts
                 THEN {"sent_opponent_material_up"} ELSE {})
  IN [k \in DOMAIN st |->
        IF k = "check_count"
          THEN (IF "check" \in sent THEN st.check_count + 1 ELSE st.check_count)
        ELSE IF k \in flagged THEN TRUE
        ELSE st[k]]

\* The count of the messages after those of sent went out.
Counted(n, sent) == [m \in Messages |-> IF m \in sent THEN n[m] + 1 ELSE n[m]]

\* stream_game is called for the game of thread t, lines 717-749.
StreamGame(t) ==
  /\ conn[t] = "off" /\ pc[t] = "idle"
  /\ connects[t] < MaxConnects
  /\ conn' = [conn EXCEPT ![t] = "open"]
  /\ connects' = [connects EXCEPT ![t] = connects[t] + 1]
  /\ chatState' = [chatState EXCEPT ![t] = LoadChatState(chatFile, t)]
  /\ seen' = [seen EXCEPT ![t] = NoEvent]
  /\ side' = [side EXCEPT ![t] = None]
  /\ subm' = [subm EXCEPT ![t] = NoSubmission]
  /\ UNCHANGED <<stats, config, engine, inflight, pc, board, tmp, cands, toEval,
                 idx, scored, reqs, result, memo, lastKey, backing, built, run,
                 chatCfg, chatFile, botColour, openings, chats, filePc, fileData,
                 chal, train>>

\* stream_game, lines 757-816: the gameFull line, the first of the stream.
\* It names the players, which gives my_is_white.
StreamGameFull(t, ev) ==
  /\ conn[t] = "open" /\ pc[t] = "idle"
  /\ seen[t].type = "none"
  /\ side' = [side EXCEPT ![t] = botColour[t]]
  /\ LET c == LoadChatConfig(chatCfg)
         s1 == AfterOpening(c, botColour[t], chatState[t], ev.board)
         st == ChatStateAfter(c, botColour[t], ev.board, ev.status, ev.facts, s1)
     IN /\ openings' = [openings EXCEPT
                          ![t] = IF OpeningSent(c, botColour[t], chatState[t], ev.board) > 0
                                 THEN openings[t] + 1 ELSE openings[t]]
        /\ chats' = [chats EXCEPT
                       ![t] = Counted(chats[t], ChatSent(c, botColour[t], ev.board,
                                                         ev.status, ev.facts, s1))]
        /\ chatState' = [chatState EXCEPT ![t] = st]
        /\ chatFile' = SaveChatState(
                         ProcessChat(chatFile, t, c, botColour[t], ev.board, ev.status),
                         t, st)
  /\ seen' = [seen EXCEPT ![t] = [type |-> "gameFull", board |-> ev.board,
                                  status |-> ev.status]]
  /\ subm' = [subm EXCEPT ![t] = NoSubmission]
  /\ PlayIfOurTurn(t, ev.board, botColour[t])
  /\ UNCHANGED <<chatCfg, botColour, conn, connects, filePc, fileData, chal, train>>

\* stream_game, lines 818-839: a gameState line.  The stream carries none
\* after the line that ended the game.
StreamGameState(t, ev) ==
  /\ conn[t] = "open" /\ pc[t] = "idle"
  /\ seen[t].type # "none"
  /\ ~GameEnded(seen[t].board, seen[t].status)
  /\ LET c == LoadChatConfig(chatCfg)
         st == ChatStateAfter(c, side[t], ev.board, ev.status, ev.facts, chatState[t])
     IN /\ chats' = [chats EXCEPT
                       ![t] = Counted(chats[t], ChatSent(c, side[t], ev.board,
                                                         ev.status, ev.facts,
                                                         chatState[t]))]
        /\ chatState' = [chatState EXCEPT ![t] = st]
        /\ chatFile' = SaveChatState(
                         ProcessChat(chatFile, t, c, side[t], ev.board, ev.status),
                         t, st)
  /\ seen' = [seen EXCEPT ![t] = [type |-> "gameState", board |-> ev.board,
                                  status |-> ev.status]]
  /\ subm' = [subm EXCEPT ![t] = NoSubmission]
  /\ PlayIfOurTurn(t, ev.board, side[t])
  /\ UNCHANGED <<side, chatCfg, botColour, conn, connects, openings, filePc,
                 fileData, chal, train>>

\* The call of make_move for the move pick_move returned.
Submission(t) ==
  [made |-> TRUE, board |-> board[t], move |-> result[t].move,
   status |-> seen[t].status]

\* _play_if_our_turn, lines 864-869, and make_move: the move goes to the
\* server; when the server refuses it raise_for_status raises and the thread
\* ends.
SubmitMove(t, accepted) ==
  /\ conn[t] = "open"
  /\ result[t].kind = "return"
  /\ subm' = [subm EXCEPT ![t] = Submission(t)]
  /\ conn' = IF accepted THEN conn ELSE [conn EXCEPT ![t] = "off"]
  /\ ReturnTo(t, AnyBoard)
  /\ UNCHANGED <<chatCfg, chatFile, botColour, connects, chatState, seen, openings,
                 chats, filePc, fileData, chal, train>>

\* The stream of thread t ends: the server closes it, or reading it fails.
StreamEnds(t) ==
  /\ conn[t] = "open" /\ pc[t] = "idle"
  /\ conn' = [conn EXCEPT ![t] = "off"]
  /\ UNCHANGED <<stats, config, engine, inflight, pc, board, tmp, cands, toEval,
                 idx, scored, reqs, result, memo, lastKey, backing, built, run,
                 side, chatCfg, chatFile, botColour, connects, chatState, seen,
                 openings, subm, chats, filePc, fileData, chal, train>>

\* The engine of the streamed game: an evaluator is configured, filtering
\* and fallback are enabled; the table is empty or holds one entry, a legal
\* move of the start position.
GameConfigs ==
  {c \in BotConfigs : /\ c.stockfish_path # None
                      /\ c.use_stockfish_filter
                      /\ c.use_stockfish_fallback}
GameTables ==
  {tb \in BotTables : \A k \in TableKeys : \A i \in 1..Len(tb[k]) :
                         tb[k][i] = [san |-> "sa", count |-> 3]}

\* The game of thread 1 starts without an entry in the file; the games of
\* the other threads have one.
InitGame ==
  /\ stats \in GameTables
  /\ config \in GameConfigs
  /\ program = "bot"
  /\ engine = SessionFor(config)
  /\ proc = ProcFor(engine)
  /\ backing = None
  /\ built = "ok"
  /\ inflight = 0
  /\ pc = [t \in Threads |-> "idle"]
  /\ board = [t \in Threads |-> AnyBoard]
  /\ tmp = [t \in Threads |-> NoBoard]
  /\ side = [t \in Threads |-> None]
  /\ exited = None
  /\ cands = [t \in Threads |-> <<>>]
  /\ toEval = [t \in Threads |-> <<>>]
  /\ idx = [t \in Threads |-> 0]
  /\ scored = [t \in Threads |-> <<>>]
  /\ reqs = [t \in Threads |-> <<>>]
  /\ result = [t \in Threads |-> NoResult]
  /\ memo = [k \in Keys |-> NoResult]
  /\ lastKey = None
  /\ chatCfg \in ChatConfigs
  /\ chatFile = [t \in Threads |-> IF t = 1 THEN NoEntry ELSE EntryOf(DefaultChatState)]
  /\ \E s \in Sides : botColour = [t \in Threads |-> IF t = 1 THEN s ELSE None]
  /\ conn = [t \in Threads |-> "off"]
  /\ connects = [t \in Threads |-> 0]
  /\ chatState = [t \in Threads |-> DefaultChatState]
  /\ seen = [t \in Threads |-> NoEvent]
  /\ openings = [t \in Threads |-> 0]
  /\ subm = [t \in Threads |-> NoSubmission]
  /\ chats = [t \in Threads |-> [m \in Messages |-> 0]]
  /\ NoFileCall
  /\ NoTraining
  /\ NoChallenges

\* One game, streamed by thread 1.
NextGame ==
  \/ StreamGame(1)
  \/ \E ev \in GameEvents : StreamGameFull(1, ev)
  \/ \E ev \in GameEvents : StreamGameState(1, ev)
  \/ \E out \in AnalyseOutcomes : conn[1] = "open" /\ AnalyseReturns(1, out)
  \/ \E out \in PlayOutcomes(board[1]) : conn[1] = "open" /\ PlayReturns(1, out)
  \/ \E accepted \in BOOLEAN : SubmitMove(1, accepted)
  \/ StreamEnds(1)

SpecGame == InitGame /\ [][NextGame]_vars

(***************************************************************************)
(* The chat messages of one streamed game: the game of thread 1 with lines *)
(* whose positions fulfil the conditions of the messages, under settings   *)
(* that configure them.                                                    *)
(***************************************************************************)
\* Settings with the one-shot messages and a "check" list shorter or longer
\* than the limit.
MessageConfigs ==
  [opening : {NoOpening},
   check : {CheckLimit - 1, CheckLimit + 1},
   once : {OneShots},
   other : {FALSE}]

\* What the lines fulfil: nothing, one condition, or all conditions of a
\* branch that can hold together.
FactSets ==
  {{}} \cup {{f} : f \in Facts}
       \cup {{"check", "material_up_kept", "material_good", "middle_game"},
             {"check", "material_bad"},
             {"opponent_up_kept", "bad_move", "first_capture"}}

\* Lines after a move of white and after a move of black, of a running game
\* and of a resigned one.
ChatEvents ==
  [board : {b \in Boards : b.key \in {"mid", "end"}},
   status : {"started", "resign"},
   facts : FactSets]

InitChat ==
  /\ stats = [k \in TableKeys |-> <<>>]
  /\ config = CHOOSE c \in GameConfigs : TRUE
  /\ program = "bot"
  /\ engine = SessionFor(config)
  /\ proc = ProcFor(engine)
  /\ backing = None
  /\ built = "ok"
  /\ inflight = 0
  /\ pc = [t \in Threads |-> "idle"]
  /\ board = [t \in Threads |-> AnyBoard]
  /\ tmp = [t \in Threads |-> NoBoard]
  /\ side = [t \in Threads |-> None]
  /\ exited = None
  /\ cands = [t \in Threads |-> <<>>]
  /\ toEval = [t \in Threads |-> <<>>]
  /\ idx = [t \in Threads |-> 0]
  /\ scored = [t \in Threads |-> <<>>]
  /\ reqs = [t \in Threads |-> <<>>]
  /\ result = [t \in Threads |-> NoResult]
  /\ memo = [k \in Keys |-> NoResult]
  /\ lastKey = None
  /\ chatCfg \in MessageConfigs
  /\ chatFile = [t \in Threads |-> NoEntry]
  /\ \E s \in {"white", None} :
       botColour = [t \in Threads |-> IF t = 1 THEN s ELSE None]
  /\ conn = [t \in Threads |-> "off"]
  /\ connects = [t \in Threads |-> 0]
  /\ chatState = [t \in Threads |-> DefaultChatState]
  /\ seen = [t \in Threads |-> NoEvent]
  /\ openings = [t \in Threads |-> 0]
  /\ subm = [t \in Threads |-> NoSubmission]
  /\ chats = [t \in Threads |-> [m \in Messages |-> 0]]
  /\ NoFileCall
  /\ NoTraining
  /\ NoChallenges

NextChat ==
  \/ StreamGame(1)
  \/ \E ev \in ChatEvents : StreamGameFull(1, ev)
  \/ \E ev \in ChatEvents : StreamGameState(1, ev)
  \/ \E out \in {"raise", Head(board[1].legal)} :
       conn[1] = "open" /\ PlayReturns(1, out)
  \/ \E accepted \in BOOLEAN : SubmitMove(1, accepted)
  \/ StreamEnds(1)

SpecChat == InitChat /\ [][NextChat]_vars

(***************************************************************************)
(* Several games streamed at once.  Every game has its thread (run_bot,    *)
(* lines 979-984), and the threads share data/chat_state.json, which       *)
(* _save_chat_state and _clear_chat_state read, change and write back      *)
(* without a lock: a thread's call is a step that reads the file and a     *)
(* step that writes it, and steps of other threads come between.           *)
(***************************************************************************)
\* stream_game, lines 757-809 and 818-832: a line of the stream up to the
\* first read of the file, in _clear_chat_state (line 501) when the line
\* ends the game and else in _save_chat_state (line 482).
ChatLine(t, ev) ==
  /\ conn[t] = "open" /\ pc[t] = "idle" /\ filePc[t] = "idle"
  /\ seen[t].type # "none" => ~GameEnded(seen[t].board, seen[t].status)
  /\ LET first == seen[t].type = "none"
         my_is_white == IF first THEN botColour[t] ELSE side[t]
         c == LoadChatConfig(chatCfg)
         s1 == IF first THEN AfterOpening(c, my_is_white, chatState[t], ev.board)
               ELSE chatState[t]
         sent == ChatSent(c, my_is_white, ev.board, ev.status, ev.facts, s1)
     IN /\ side' = [side EXCEPT ![t] = my_is_white]
        /\ openings' = [openings EXCEPT
                          ![t] = IF first /\ OpeningSent(c, my_is_white, chatState[t],
                                                         ev.board) > 0
                                 THEN openings[t] + 1 ELSE openings[t]]
        /\ chats' = [chats EXCEPT ![t] = Counted(chats[t], sent)]
        /\ chatState' = [chatState EXCEPT
                           ![t] = ChatStateAfter(c, my_is_white, ev.board, ev.status,
                                                 ev.facts, s1)]
        /\ seen' = [seen EXCEPT
                      ![t] = [type |-> IF first THEN "gameFull" ELSE "gameState",
                              board |-> ev.board, status |-> ev.status]]
        /\ filePc' = [filePc EXCEPT
                        ![t] = IF /\ ~(ChatEmpty(c) \/ my_is_white = None)
                                  /\ GameEnded(ev.board, ev.status)
                               THEN "clearing" ELSE "saving"]
  /\ fileData' = [fileData EXCEPT ![t] = chatFile]
  /\ subm' = [subm EXCEPT ![t] = NoSubmission]
  /\ UNCHANGED <<stats, config, engine, inflight, pc, board, tmp, cands, toEval,
                 idx, scored, reqs, result, memo, lastKey, backing, built, run,
                 chatCfg, chatFile, botColour, conn, connects, chal, train>>

\* _clear_chat_state, lines 502-503: the entry is popped from what was read
\* and the file is written.
ClearWrites(t) ==
  /\ filePc[t] = "clearing"
  /\ chatFile' = ClearChatState(fileData[t], t)
  /\ filePc' = [filePc EXCEPT ![t] = "cleared"]
  /\ fileData' = [fileData EXCEPT ![t] = EmptyFile]
  /\ UNCHANGED <<stats, config, engine, inflight, pc, board, tmp, cands, toEval,
                 idx, scored, reqs, result, memo, lastKey, backing, built, run,
                 side, chatCfg, botColour, conn, connects, chatState, seen,
                 openings, subm, chats, chal, train>>

\* _save_chat_state, line 482, after _process_chat cleared the entry.
SaveReads(t) ==
  /\ filePc[t] = "cleared"
  /\ filePc' = [filePc EXCEPT ![t] = "saving"]
  /\ fileData' = [fileData EXCEPT ![t] = chatFile]
  /\ UNCHANGED <<stats, config, engine, inflight, pc, board, tmp, cands, toEval,
                 idx, scored, reqs, result, memo, lastKey, backing, built, run,
                 side, chatCfg, chatFile, botColour, conn, connects, chatState,
                 seen, openings, subm, chats, chal, train>>

\* _save_chat_state, lines 490-492: the entry of the game is set in what was
\* read and the file is written; then _play_if_our_turn, lines 816 and 839.
SaveWrites(t) ==
  /\ filePc[t] = "saving"
  /\ chatFile' = SaveChatState(fileData[t], t, chatState[t])
  /\ filePc' = [filePc EXCEPT ![t] = "idle"]
  /\ fileData' = [fileData EXCEPT ![t] = EmptyFile]
  /\ PlayIfOurTurn(t, seen[t].board, side[t])
  /\ UNCHANGED <<side, chatCfg, botColour, conn, connects, chatState, seen,
                 openings, subm, chats, chal, train>>

\* The event stream ends and with it the process and its daemon threads,
\* lines 947 and 982; here between the lines of the games.
BotEnds ==
  /\ \E t \in Threads : conn[t] = "open"
  /\ \A t \in Threads : pc[t] = "idle" /\ filePc[t] = "idle"
  /\ conn' = [t \in Threads |-> "off"]
  /\ UNCHANGED <<stats, config, engine, inflight, pc, board, tmp, cands, toEval,
                 idx, scored, reqs, result, memo, lastKey, backing, built, run,
                 side, chatCfg, chatFile, botColour, connects, chatState,
                 seen, openings, subm, chats, filePc, fileData, chal, train>>

\* Settings with one one-shot message and a "check" list.
SharedConfigs ==
  [opening : {NoOpening},
   check : {CheckLimit - 1},
   once : {{"position_good"}},
   other : {FALSE}]

\* Lines after a move of the bot, which has white: of a running game and of
\* a resigned one.
SharedEvents ==
  [board : {b \in Boards : b.key = "end"},
   status : {"started", "resign"},
   facts : {{}, {"material_good"}}]

\* The file exists, left without entries by earlier games.
InitShared ==
  /\ stats = [k \in TableKeys |-> <<>>]
  /\ config = CHOOSE c \in GameConfigs : TRUE
  /\ program = "bot"
  /\ engine = SessionFor(config)
  /\ proc = ProcFor(engine)
  /\ backing = None
  /\ built = "ok"
  /\ inflight = 0
  /\ pc = [t \in Threads |-> "idle"]
  /\ board = [t \in Threads |-> AnyBoard]
  /\ tmp = [t \in Threads |-> NoBoard]
  /\ side = [t \in Threads |-> None]
  /\ exited = None
  /\ cands = [t \in Threads |-> <<>>]
  /\ toEval = [t \in Threads |-> <<>>]
  /\ idx = [t \in Threads |-> 0]
  /\ scored = [t \in Threads |-> <<>>]
  /\ reqs = [t \in Threads |-> <<>>]
  /\ result = [t \in Threads |-> NoResult]
  /\ memo = [k \in Keys |-> NoResult]
  /\ lastKey = None
  /\ chatCfg \in SharedConfigs
  /\ chatFile = EmptyFile
  /\ botColour = [t \in Threads |-> "white"]
  /\ conn = [t \in Threads |-> "off"]
  /\ connects = [t \in Threads |-> 0]
  /\ chatState = [t \in Threads |-> DefaultChatState]
  /\ seen = [t \in Threads |-> NoEvent]
  /\ openings = [t \in Threads |-> 0]
  /\ subm = [t \in Threads |-> NoSubmission]
  /\ chats = [t \in Threads |-> [m \in Messages |-> 0]]
  /\ NoFileCall
  /\ NoTraining
  /\ NoChallenges

NextShared ==
  \/ \E t \in Threads : StreamGame(t)
  \/ \E t \in Threads, ev \in SharedEvents : ChatLine(t, ev)
  \/ \E t \in Threads : ClearWrites(t)
  \/ \E t \in Threads : SaveReads(t)
  \/ \E t \in Threads : SaveWrites(t)
  \/ BotEnds

SpecShared == InitShared /\ [][NextShared]_vars

(***************************************************************************)
(* The challenges of run_bot (src/lichess_bot.py): challenge_loop sends    *)
(* them in its own thread, the event loop hears what became of them.  The  *)
(* two threads share pending_challenge_id and next_challenge_time under    *)
(* challenge_lock and the rotation index without it.  A challenge at the   *)
(* server is a record of its id n and the rotation entry it was sent with. *)
(***************************************************************************)
\* _load_rotation_index: 0 unless the file yields an integer.
LoadRotationIndex(f) == IF f.readable THEN f.index ELSE 0

\* _get_rotation_index: the attribute after the call; it is loaded once.
GetRotationIndex(c, f) == IF c.set THEN c ELSE Cached(LoadRotationIndex(f))

\* get_current_challenge_config: the entry at the index, modulo the length.
GetCurrentChallengeConfig(c, f) == GetRotationIndex(c, f).v % RotationLen

\* advance_challenge_rotation: the attribute after the call; the same value
\* is written to the file.
AdvanceChallengeRotation(c, f) == Cached(GetRotationIndex(c, f).v + 1)

\* A non-empty string.
TruthyId(p) == p.kind = "id"

\* Everything but the challenges.
others == <<stats, config, engine, inflight, pc, board, tmp, cands, toEval, idx,
            scored, reqs, result, memo, lastKey, backing, built, program, side,
            exited, proc, games, train>>

\* challenge_loop, lines 910-931: the waiting time is over, a target is
\* found, and the current rotation entry is read.
LoopReads ==
  /\ loop = "top"
  /\ nextTime = "past"
  /\ issued < MaxChallenges
  /\ rotIdx' = GetRotationIndex(rotIdx, rotFile)
  /\ loopEntry' = GetCurrentChallengeConfig(rotIdx, rotFile)
  /\ loop' = "send"
  /\ UNCHANGED <<rotFile, pending, nextTime, loopRes, open, issued, theirs,
                 advancedBy, declined, resent, others>>

\* challenge_loop, line 932: challenge_user returns.  With status 200 the
\* server holds the challenge and the call returns its id ("id") or, when
\* the answer cannot be read, the empty string ("empty"); otherwise it
\* returns None and the loop sleeps.
ChallengeOutcomes == {"id", "empty", "none"}
LoopSends(out) ==
  /\ loop = "send"
  /\ IF out = "none"
       THEN /\ loopRes' = NoId
            /\ loop' = "top"
            /\ UNCHANGED <<open, issued, declined, resent>>
       ELSE /\ open' = open \cup {[n |-> issued + 1, entry |-> loopEntry]}
            /\ issued' = issued + 1
            /\ loopRes' = IF out = "id" THEN IdOf(issued + 1) ELSE EmptyId
            /\ loop' = "store"
            /\ resent' = IF declined # NoEntryRead
                           THEN [declined |-> declined, sent |-> loopEntry]
                           ELSE resent
            /\ declined' = NoEntryRead
  /\ UNCHANGED <<rotFile, rotIdx, pending, nextTime, loopEntry, theirs,
                 advancedBy, others>>

\* challenge_loop, lines 933-935: the result becomes the pending id.
LoopStores ==
  /\ loop = "store"
  /\ pending' = loopRes
  /\ loop' = "top"
  /\ UNCHANGED <<rotFile, rotIdx, nextTime, loopEntry, loopRes, open, issued,
                 theirs, advancedBy, declined, resent, others>>

\* The event loop, lines 951-959: the bot's own challenge is passed over,
\* the challenge of another player is accepted, which may fail.
ChallengeEvent(own, accepted) ==
  /\ theirs' = IF own THEN theirs ELSE (theirs \/ accepted)
  /\ UNCHANGED <<rotFile, rotIdx, pending, nextTime, loop, loopEntry, loopRes,
                 open, issued, advancedBy, declined, resent, others>>

\* The event loop, lines 961-969: the challenge ch of the bot was declined.
ChallengeDeclined(ch) ==
  /\ ch \in open
  /\ open' = open \ {ch}
  /\ IF pending = IdOf(ch.n)
       THEN /\ nextTime' = "future"
            /\ pending' = NoId
            /\ declined' = ch.entry
       ELSE UNCHANGED <<nextTime, pending, declined>>
  /\ UNCHANGED <<rotFile, rotIdx, loop, loopEntry, loopRes, issued, theirs,
                 advancedBy, resent, others>>

\* The event loop, lines 971-977, for a game that starts from a challenge of
\* origin "ours" or "theirs".
OnGameStart(origin) ==
  IF TruthyId(pending)
    THEN /\ rotIdx' = AdvanceChallengeRotation(rotIdx, rotFile)
         /\ rotFile' = Stored(rotIdx'.v)
         /\ pending' = NoId
         /\ nextTime' = "future"
         /\ advancedBy' = origin
         /\ declined' = NoEntryRead
    ELSE UNCHANGED <<rotIdx, rotFile, pending, nextTime, advancedBy, declined>>

\* The challenge ch of the bot was accepted and its game starts.
GameStartOurs(ch) ==
  /\ ch \in open
  /\ open' = open \ {ch}
  /\ OnGameStart("ours")
  /\ UNCHANGED <<loop, loopEntry, loopRes, issued, theirs, resent, others>>

\* The game of a challenge the bot accepted starts.
GameStartTheirs ==
  /\ theirs
  /\ theirs' = FALSE
  /\ OnGameStart("theirs")
  /\ UNCHANGED <<loop, loopEntry, loopRes, open, issued, resent, others>>

\* The clock reaches next_challenge_time.
TimePasses ==
  /\ nextTime = "future"
  /\ nextTime' = "past"
  /\ UNCHANGED <<rotFile, rotIdx, pending, loop, loopEntry, loopRes, open,
                 issued, theirs, advancedBy, declined, resent, others>>

\* The bot runs with an engine and no game; the rotation file holds anything.
InitChallenge ==
  /\ stats = [k \in TableKeys |-> <<>>]
  /\ config = CHOOSE c \in GameConfigs : TRUE
  /\ program = "bot"
  /\ engine = SessionFor(config)
  /\ proc = ProcFor(engine)
  /\ backing = None
  /\ built = "ok"
  /\ inflight = 0
  /\ pc = [t \in Threads |-> "idle"]
  /\ board = [t \in Threads |-> AnyBoard]
  /\ tmp = [t \in Threads |-> NoBoard]
  /\ side = [t \in Threads |-> None]
  /\ exited = None
  /\ cands = [t \in Threads |-> <<>>]
  /\ toEval = [t \in Threads |-> <<>>]
  /\ idx = [t \in Threads |-> 0]
  /\ scored = [t \in Threads |-> <<>>]
  /\ reqs = [t \in Threads |-> <<>>]
  /\ result = [t \in Threads |-> NoResult]
  /\ memo = [k \in Keys |-> NoResult]
  /\ lastKey = None
  /\ NoStreams
  /\ NoTraining
  /\ rotFile \in RotationFiles
  /\ ChallengesAtStart

NextChallenge ==
  \/ LoopReads
  \/ \E out \in ChallengeOutcomes : LoopSends(out)
  \/ LoopStores
  \/ \E own \in BOOLEAN, accepted \in BOOLEAN : ChallengeEvent(own, accepted)
  \/ \E ch \in open : ChallengeDeclined(ch)
  \/ \E ch \in open : GameStartOurs(ch)
  \/ GameStartTheirs
  \/ TimePasses

SpecChallenge == InitChallenge /\ [][NextChallenge]_vars

(***************************************************************************)
(* load_fen_stats (src/trainer.py) and __init__.  A JSON value is a record *)
(* of its type t, its number v and, for an object, its members in file     *)
(* order.  A float's v counts halves (5 is 2.5); "numstr" is a string of   *)
(* digits and "str" any other string.                                      *)
(***************************************************************************)
JScalar(t, v) == [t |-> t, v |-> v, items |-> <<>>]
JObject(items) == [t |-> "obj", v |-> 0, items |-> items]
\* A file that is not JSON at all.
JInvalid == JScalar("invalid", 0)

\* What a table file may hold where a count belongs.
CountValues ==
  { JScalar("int", 3), JScalar("int", 0), JScalar("int", -3),
    JScalar("float", 5), JScalar("numstr", 7), JScalar("str", 0),
    JScalar("bool", 1), JScalar("null", 0), JScalar("list", 0) }

Members(keys, vals) == [key : keys, val : vals]
RECURSIVE MemberSeqs(_, _)
MemberSeqs(ms, n) ==
  IF n = 0 THEN {<<>>}
  ELSE {Append(r, e) : r \in MemberSeqs(ms, n - 1), e \in ms}
DistinctKeys(r) == \A i, j \in 1..Len(r) : i # j => r[i].key # r[j].key
ObjectsOver(keys, vals, n) ==
  {JObject(r) : r \in {q \in UNION {MemberSeqs(Members(keys, vals), k) : k \in 0..n} :
                         DistinctKeys(q)}}

\* The files: not JSON, a non-mapping, or a mapping with at most one
\* position whose value is a non-mapping or a mapping of notations to count
\* values.
RowValues ==
  ObjectsOver(Sans, CountValues, MaxEntries)
    \cup {JScalar("null", 0), JScalar("list", 0), JScalar("int", 3)}
LoadDocs ==
  {JInvalid, JScalar("list", 0)} \cup ObjectsOver({"mid"}, RowValues, 1)

\* Python's int(count).
PyInt(j) ==
  IF j.t \in {"int", "numstr", "bool"} THEN [ok |-> TRUE, v |-> j.v]
  ELSE IF j.t = "float"
       THEN [ok |-> TRUE, v |-> IF j.v >= 0 THEN j.v \div 2 ELSE 0 - ((0 - j.v) \div 2)]
       ELSE [ok |-> FALSE, v |-> 0]

\* {san: int(count) for san, count in moves.items()}
LoadRow(j) ==
  IF j.t # "obj" THEN [ok |-> FALSE, row |-> <<>>]
  ELSE IF \E i \in 1..Len(j.items) : ~PyInt(j.items[i].val).ok
       THEN [ok |-> FALSE, row |-> <<>>]
       ELSE [ok |-> TRUE,
             row |-> [i \in 1..Len(j.items) |->
                        [san |-> j.items[i].key, count |-> PyInt(j.items[i].val).v]]]

\* load_fen_stats: the table, or the exception of json.load, .items() or
\* int().
LoadFenStats(doc) ==
  IF doc.t # "obj" THEN [ok |-> FALSE, stats |-> <<>>]
  ELSE IF \E i \in 1..Len(doc.items) : ~LoadRow(doc.items[i].val).ok
       THEN [ok |-> FALSE, stats |-> <<>>]
       ELSE [ok |-> TRUE,
             stats |-> [k \in {doc.items[i].key : i \in 1..Len(doc.items)} |->
                          LoadRow((CHOOSE m \in Range(doc.items) : m.key = k).val).row]]

\* YourStyleEngine.__init__: the table is loaded, then the session opened
\* when a path is configured; popen_uci opens the process or raises.
Construct(opens) ==
  /\ built = "pending"
  /\ LET r == LoadFenStats(backing)
     IN IF ~r.ok
        THEN /\ built' = "error"
             /\ UNCHANGED <<stats, engine, proc>>
        ELSE IF SessionFor(config) # None /\ ~opens
        THEN /\ stats' = r.stats
             /\ built' = "error"
             /\ UNCHANGED <<engine, proc>>
        ELSE /\ stats' = r.stats
             /\ engine' = SessionFor(config)
             /\ proc' = ProcFor(SessionFor(config))
             /\ built' = "ok"
  /\ UNCHANGED <<config, inflight, pc, board, tmp, cands, toEval, idx, scored,
                 reqs, result, memo, lastKey, backing, program, side, exited,
                 net>>

Unbuilt ==
  /\ built = "pending"
  /\ stats = <<>>
  /\ engine = None
  /\ proc = "none"
  /\ InitLocals

InitLoad ==
  /\ backing \in LoadDocs
  /\ config \in BotConfigs
  /\ program = None
  /\ Unbuilt

NextLoad == \E opens \in BOOLEAN : Construct(opens)

SpecLoad == InitLoad /\ [][NextLoad]_vars

(***************************************************************************)
(* build_fen_stats and save_fen_stats (src/trainer.py).  A position is its *)
(* key, a mainline move the pair of the position it is played from and its *)
(* notation.  A Counter is a row: the notations in the order they were     *)
(* first counted.                                                          *)
(***************************************************************************)
\* The largest number of mainline moves in the input games.
MaxMoves == 4

\* The positions of the input games.
TrainKeys == {"mid", "end"}

\* A Counter that counts san once.
CounterSet(row, san) == <<[san |-> san, count |-> 1]>>

\* counter[san] += 1: a notation not yet counted starts from 0.
CounterAdd(row, san) ==
  IF \E i \in 1..Len(row) : row[i].san = san
  THEN [i \in 1..Len(row) |->
          IF row[i].san = san THEN [row[i] EXCEPT !.count = row[i].count + 1]
          ELSE row[i]]
  ELSE Append(row, [san |-> san, count |-> 1])

\* fen_to_moves[fen_before][san] += 1 on the defaultdict, line 39.
Tally(tb, fen, san) ==
  [k \in DOMAIN tb \cup {fen} |->
     IF k = fen THEN CounterAdd(IF fen \in DOMAIN tb THEN tb[fen] ELSE <<>>, san)
     ELSE tb[k]]

\* What the trainer leaves alone.
untrained == <<config, engine, inflight, pc, board, tmp, cands, toEval, idx,
               scored, reqs, result, memo, lastKey, built, program, side,
               exited, proc, games, chal>>

\* _iter_games yields the next game and line 32 sets up its board.
ReadGame(fen) ==
  /\ trainPc = "build" /\ trainBoard = None
  /\ trainBoard' = fen
  /\ UNCHANGED <<fenToMoves, mainline, trainPc, stats, backing, untrained>>

\* Lines 35-40: a mainline move in notation san is counted for the position
\* before it and pushed, which gives the position next.
MainlineMove(san, next) ==
  /\ trainPc = "build" /\ trainBoard # None
  /\ Len(mainline) < MaxMoves
  /\ fenToMoves' = Tally(fenToMoves, trainBoard, san)
  /\ mainline' = Append(mainline, <<trainBoard, san>>)
  /\ trainBoard' = next
  /\ UNCHANGED <<trainPc, stats, backing, untrained>>

\* The mainline of the game is exhausted.
EndOfGame ==
  /\ trainPc = "build" /\ trainBoard # None
  /\ trainBoard' = None
  /\ UNCHANGED <<fenToMoves, mainline, trainPc, stats, backing, untrained>>

\* Lines 42-45: no game is left; the Counters become dicts and the table is
\* returned.
BuildReturns ==
  /\ trainPc = "build" /\ trainBoard = None
  /\ trainPc' = "built"
  /\ UNCHANGED <<fenToMoves, trainBoard, mainline, stats, backing, untrained>>

\* A count written with a fraction part, as json.dump writes a float.
DumpCountAsFloat(n) == JScalar("float", n)

\* json.dump of a count: an int is written in decimal.
DumpCount(n) == JScalar("int", n)

\* json.dump of the moves of a position.
DumpRow(row) ==
  JObject([i \in 1..Len(row) |-> [key |-> row[i].san, val |-> DumpCount(row[i].count)]])

\* The positions of a table in some order.
RECURSIVE KeysInOrder(_)
KeysInOrder(ks) ==
  IF ks = {} THEN <<>>
  ELSE LET k == CHOOSE x \in ks : TRUE IN <<k>> \o KeysInOrder(ks \ {k})

\* save_fen_stats: the document json.dump writes.
DumpStats(tb) ==
  LET ks == KeysInOrder(DOMAIN tb)
  IN JObject([i \in 1..Len(ks) |-> [key |-> ks[i], val |-> DumpRow(tb[ks[i]])]])

\* save_fen_stats, lines 48-51.
SaveFenStats ==
  /\ trainPc = "built"
  /\ backing' = DumpStats(fenToMoves)
  /\ trainPc' = "saved"
  /\ UNCHANGED <<fenToMoves, trainBoard, mainline, stats, untrained>>

\* load_fen_stats on the file that was saved, lines 54-58.
LoadSaved ==
  /\ trainPc = "saved"
  /\ LET r == LoadFenStats(backing)
     IN IF r.ok THEN stats' = r.stats /\ trainPc' = "loaded"
        ELSE stats' = stats /\ trainPc' = "load_error"
  /\ UNCHANGED <<fenToMoves, trainBoard, mainline, backing, untrained>>

\* The trainer's main(): no game is read yet.
InitTrain ==
  /\ backing = None
  /\ config \in {c \in BotConfigs : c.stockfish_path = None}
  /\ program = None
  /\ Unbuilt

NextTrain ==
  \/ \E fen \in TrainKeys : ReadGame(fen)
  \/ \E san \in Sans, next \in TrainKeys : MainlineMove(san, next)
  \/ EndOfGame
  \/ BuildReturns
  \/ SaveFenStats

SpecTrain == InitTrain /\ [][NextTrain]_vars

\* The tables save_fen_stats is given: string keys and integer counts.
SaveCounts == {0 - 3, 0, 3}
SaveEntries == [san : Sans, count : SaveCounts]
RECURSIVE SaveRowsOfLen(_)
SaveRowsOfLen(n) ==
  IF n = 0 THEN {<<>>}
  ELSE {Append(r, e) : r \in SaveRowsOfLen(n - 1), e \in SaveEntries}
SaveRows == {r \in UNION {SaveRowsOfLen(n) : n \in 0..MaxEntries} : DistinctSans(r)}
SaveTables == UNION {[ks -> SaveRows] : ks \in SUBSET TrainKeys}

\* A table is given to save_fen_stats.
InitSave ==
  /\ backing = None
  /\ config \in {c \in BotConfigs : c.stockfish_path = None}
  /\ program = None
  /\ built = "pending"
  /\ stats = <<>>
  /\ engine = None
  /\ proc = "none"
  /\ inflight = 0
  /\ pc = [t \in Threads |-> "idle"]
  /\ board = [t \in Threads |-> AnyBoard]
  /\ tmp = [t \in Threads |-> NoBoard]
  /\ side = [t \in Threads |-> None]
  /\ exited = None
  /\ cands = [t \in Threads |-> <<>>]
  /\ toEval = [t \in Threads |-> <<>>]
  /\ idx = [t \in Threads |-> 0]
  /\ scored = [t \in Threads |-> <<>>]
  /\ reqs = [t \in Threads |-> <<>>]
  /\ result = [t \in Threads |-> NoResult]
  /\ memo = [k \in Keys |-> NoResult]
  /\ lastKey = None
  /\ NoStreams
  /\ NoChallenges
  /\ fenToMoves \in SaveTables
  /\ trainBoard = None
  /\ mainline = <<>>
  /\ trainPc = "built"

NextSave ==
  \/ SaveFenStats
  \/ LoadSaved

SpecSave == InitSave /\ [][NextSave]_vars

(***************************************************************************)
(* The programs: offline play (src/offline.py) and the bot, each from the  *)
(* construction of its engine to the point where it stops using it.        *)
(***************************************************************************)
Running(prog) == program = prog /\ built = "ok" /\ exited = None

\* The engine object is dropped when play_interactive returns, lines 32 and
\* 46: __del__ runs, and quit() succeeds or raises.
Returns(how, fin) ==
  /\ exited' = how
  /\ proc' = Del(proc, fin)
  /\ UNCHANGED <<stats, config, engine, inflight, pc, board, tmp, cands, toEval,
                 idx, scored, reqs, result, memo, lastKey, backing, built,
                 program, side, net>>

\* play_interactive, lines 25 and 46: the loop ends with the game.
OfflineEnds(fin) ==
  /\ Running("offline") /\ pc[1] = "idle"
  /\ IsGameOver(board[1])
  /\ Returns("end", fin)

\* What _ask_human_move gives: a legal move, after which the board is some
\* board with the engine to move, None for "quit", or the exception of
\* input() (end of input, Ctrl+C).
HumanAnswers == {"move", "quit", "raise"}

\* play_interactive, lines 28-36: the human's turn.
OfflineHuman(ans, b, fin) ==
  /\ Running("offline") /\ pc[1] = "idle"
  /\ ~IsGameOver(board[1])
  /\ board[1].turn # side[1]
  /\ IF ans = "move"
     THEN /\ b.turn = side[1]
          /\ board' = [board EXCEPT ![1] = b]
          /\ UNCHANGED <<stats, config, engine, inflight, pc, tmp, cands, toEval,
                         idx, scored, reqs, result, memo, lastKey, backing,
                         built, side, run, net>>
     ELSE IF ans = "quit"
     THEN fin # "no_del" /\ Returns("quit", fin)
     ELSE Returns("error", fin)

\* play_interactive, line 38: the engine's turn.
OfflineEngine ==
  /\ Running("offline")
  /\ ~IsGameOver(board[1])
  /\ ~(board[1].turn # side[1])
  /\ PickMove(1, board[1])
  /\ UNCHANGED <<side, net>>

\* play_interactive, lines 39-40: the engine's move is pushed, and the board
\* is some board with the human to move.
OfflinePush(b) ==
  /\ Running("offline")
  /\ result[1].kind = "return"
  /\ b.turn # side[1]
  /\ ReturnTo(1, b)
  /\ UNCHANGED net

\* The table files of the programs: no JSON, or a table of the start position
\* with at most one entry.
AppDocs ==
  {JInvalid} \cup
  {d \in LoadDocs :
     /\ d.t = "obj"
     /\ \A i \in 1..Len(d.items) :
          /\ d.items[i].val.t = "obj"
          /\ Len(d.items[i].val.items) <= 1
          /\ \A k \in 1..Len(d.items[i].val.items) :
               d.items[i].val.items[k].val = JScalar("int", 3)}

\* play_interactive starts from chess.Board() with the colour the human
\* chose; run_bot starts without a game.
InitApp ==
  /\ backing \in AppDocs
  /\ config \in BotConfigs
  /\ program \in {"offline", "bot"}
  /\ built = "pending"
  /\ stats = <<>>
  /\ engine = None
  /\ proc = "none"
  /\ inflight = 0
  /\ pc = [t \in Threads |-> "idle"]
  /\ board = [t \in Threads |-> StartBoard]
  /\ tmp = [t \in Threads |-> NoBoard]
  /\ \E human \in Colours :
       side = [t \in Threads |->
                 IF program = "offline" /\ t = 1 THEN Opponent(human) ELSE None]
  /\ exited = None
  /\ cands = [t \in Threads |-> <<>>]
  /\ toEval = [t \in Threads |-> <<>>]
  /\ idx = [t \in Threads |-> 0]
  /\ scored = [t \in Threads |-> <<>>]
  /\ reqs = [t \in Threads |-> <<>>]
  /\ result = [t \in Threads |-> NoResult]
  /\ memo = [k \in Keys |-> NoResult]
  /\ lastKey = None
  /\ NoGames
  /\ NoTraining

NextOffline ==
  \/ \E fin \in Finals \ {"no_del"} : OfflineEnds(fin)
  \/ \E ans \in HumanAnswers, b \in GameBoards, fin \in Finals :
       OfflineHuman(ans, b, fin)
  \/ OfflineEngine
  \/ \E out \in AnalyseOutcomes : Running("offline") /\ AnalyseReturns(1, out)
  \/ \E out \in PlayOutcomes(board[1]) : Running("offline") /\ PlayReturns(1, out)
  \/ \E b \in GameBoards : OfflinePush(b)

\* The bot with one game under way.
NextOneGame ==
  /\ Running("bot")
  /\ \/ GameThread(1)
     \/ \E how \in BotExits, fin \in Finals : BotStops(how, fin)

NextApp ==
  \/ \E opens \in BOOLEAN : Construct(opens)
  \/ NextOffline
  \/ NextOneGame

SpecApp == InitApp /\ [][NextApp]_vars

(***************************************************************************)
(* Properties.                                                             *)
(***************************************************************************)
Finished(t) == pc[t] = "done"
NoEvaluator == engine = None
FilterActive == engine # None /\ config.use_stockfish_filter

\* i is the first index of s whose count is the largest of s.
FirstMaxCount(s, i) ==
  /\ i \in 1..Len(s)
  /\ \A j \in 1..Len(s) : s[j].count <= s[i].count
  /\ \A j \in 1..(i - 1) : s[j].count < s[i].count

\* The move pick_move returns when the table alone decides: the move of the
\* first candidate, in table order, with the largest count.
IsMostPlayed(b, m) ==
  \E i \in 1..Len(LegalCandidates(b)) :
    /\ FirstMaxCount(LegalCandidates(b), i)
    /\ LegalCandidates(b)[i].move = m

HasAnswer(t, kinds) == \E i \in 1..Len(reqs[t]) : reqs[t][i].answer \in kinds

\* C1: on a position with at least one legal move pick_move returns a move
\* that is legal in that position, whatever the table, the configuration and
\* the evaluator's answers.
C1_ReturnsLegalMove ==
  \A t \in Threads :
    (Finished(t) /\ board[t].legal # <<>>) =>
      (result[t].kind = "return" /\ IsLegal(board[t], result[t].move))

\* C2: on a position with zero legal moves pick_move raises the no-legal-move
\* error and makes no evaluator request during the invocation.
C2_TerminalRaisesWithoutEvaluator ==
  \A t \in Threads :
    (pc[t] # "idle" /\ board[t].legal = <<>>) =>
      /\ reqs[t] = <<>>
      /\ Finished(t) => (result[t].kind = "raise" /\ result[t].error = "ValueError")

\* C3, as stated: with filtering active the returned candidate is never one
\* whose score is more than blunder_threshold_cp below the best score among
\* the scored candidates.
C3_BlunderNeverReturned ==
  \A t \in Threads :
    (Finished(t) /\ FilterActive /\ scored[t] # <<>>) =>
      /\ result[t] = Returned(ChooseScored(scored[t]).move)
      /\ \A i \in 1..Len(scored[t]) :
           ~(ChooseScored(scored[t]).score
               < scored[t][i].score - config.blunder_threshold_cp)

\* C3, amended: the same for every blunder_threshold_cp >= 0.
C3_BlunderNeverReturnedNonNegative ==
  \A t \in Threads :
    (Finished(t) /\ FilterActive /\ scored[t] # <<>>
       /\ config.blunder_threshold_cp >= 0) =>
      /\ result[t] = Returned(ChooseScored(scored[t]).move)
      /\ \A i \in 1..Len(scored[t]) :
           ~(ChooseScored(scored[t]).score
               < scored[t][i].score - config.blunder_threshold_cp)

\* C3, its case: threshold 200, the more played candidate scores -400, the
\* less played one 50, and the less played one is returned.
C3_Witness ==
  /\ Finished(1) /\ FilterActive
  /\ config.blunder_threshold_cp = DefaultBlunderThreshold
  /\ Len(scored[1]) = 2
  /\ scored[1][1].count > scored[1][2].count
  /\ scored[1][1].score = -400
  /\ scored[1][2].score = 50
  /\ result[1] = Returned(scored[1][2].move)
  /\ scored[1][2].move # scored[1][1].move

\* C4: with filtering active, when every analyse request failed or gave no
\* score, pick_move returns the move it returns without an evaluator: the
\* first most played candidate of the whole candidate list in table order.
C4_AllUnavailableFallsBack ==
  \A t \in Threads :
    (Finished(t) /\ FilterActive /\ LegalCandidates(board[t]) # <<>>
       /\ scored[t] = <<>>) =>
      /\ result[t].kind = "return"
      /\ IsMostPlayed(board[t], result[t].move)

\* C4, its case: two candidates of which only the first by count was
\* analysed, the request failed, and the table lists the most played last.
C4_Witness ==
  /\ Finished(1) /\ FilterActive /\ scored[1] = <<>>
  /\ Len(LegalCandidates(board[1])) = 2
  /\ Len(reqs[1]) = 1 /\ reqs[1][1].answer \in {"raise", "noscore"}
  /\ LegalCandidates(board[1])[2].count > LegalCandidates(board[1])[1].count
  /\ result[1] = Returned(LegalCandidates(board[1])[2].move)

\* C5: without an evaluator, or with filtering disabled, a position with a
\* legal candidate gets the first most played candidate in table order and no
\* evaluator request is made.
C5_MostPlayedWithoutEvaluator ==
  \A t \in Threads :
    (pc[t] # "idle" /\ (NoEvaluator \/ ~config.use_stockfish_filter)
       /\ LegalCandidates(board[t]) # <<>>) =>
      /\ Finished(t)
      /\ reqs[t] = <<>>
      /\ result[t].kind = "return"
      /\ IsMostPlayed(board[t], result[t].move)

\* C5, its case: counts 3 and 10 in table order, an evaluator configured but
\* filtering disabled, and the count-10 candidate returned.
C5_Witness ==
  /\ Finished(1) /\ ~NoEvaluator /\ ~config.use_stockfish_filter
  /\ Len(LegalCandidates(board[1])) = 2
  /\ LegalCandidates(board[1])[1].count = 3
  /\ LegalCandidates(board[1])[2].count = 10
  /\ result[1] = Returned(LegalCandidates(board[1])[2].move)

\* The depth the endgame rule gives a board under the configuration.
RuleDepth(b) ==
  IF b.pieces <= config.endgame_piece_count
  THEN config.stockfish_endgame_depth
  ELSE config.stockfish_depth

C8_FailuresAbsorbed ==
  \A t \in Threads :
    /\ result[t].error # "EngineError"
    /\ (Finished(t) /\ board[t].legal # <<>>) => result[t].kind = "return"

\* C8, its case: a call during which a request failed and which returned a
\* move all the same.
C8_Witness ==
  /\ Finished(1) /\ board[1].legal # <<>>
  /\ HasAnswer(1, {"raise"})
  /\ result[1].kind = "return"

\* C10: the evaluator session has at most one request in flight.
C10_OneInFlight == inflight <= 1

\* The shape a table file must have: a mapping of position keys to mappings
\* of notations to non-negative integers.
WellFormed(doc) ==
  /\ doc.t = "obj"
  /\ \A i \in 1..Len(doc.items) :
       /\ doc.items[i].val.t = "obj"
       /\ \A k \in 1..Len(doc.items[i].val.items) :
            /\ doc.items[i].val.items[k].val.t = "int"
            /\ doc.items[i].val.items[k].val.v >= 0

\* C9: construction fails whenever the file is not a mapping of position keys
\* to mappings of notations to non-negative integer counts.
C9_MalformedFailsConstruction ==
  (built # "pending" /\ ~WellFormed(backing)) => built = "error"

\* C11, as stated: once the program has stopped using its engine, by any
\* exit path, no evaluator process the engine opened is left open; and a
\* construction that failed has opened none.
C11_ReleasedOnEveryExit ==
  /\ exited # None => proc # "open"
  /\ built = "error" => proc = "none"

\* C12: no step of pick_move changes the table or the configuration, and
\* from its call to its return the caller's board is the board it was called
\* with, position and move stack; candidates are pushed on tmp_board only.
C12_CallLeavesInputsUnchanged ==
  [][/\ stats' = stats
     /\ config' = config
     /\ \A t \in Threads :
          /\ pc'[t] # "idle" => board'[t] \in Boards
          /\ (pc[t] # "idle" /\ pc'[t] # "idle") => board'[t] = board[t]]_vars

\* C12, its case: a call on the endgame board, whose move stack holds three
\* moves, during which a request failed; the candidate is on the stack of
\* tmp_board alone.
C12_Witness ==
  /\ Finished(1) /\ HasAnswer(1, {"raise"})
  /\ board[1].key = "end" /\ Len(board[1].stack) = 3
  /\ tmp[1].key = "after" /\ tmp[1].stack = <<"a">>
  /\ result[1].kind = "return"

\* C13: whenever a caller of the repository is inside pick_move, the board it
\* passed is not game over (it has a legal move and is no draw), the engine
\* plays a colour in the game, and that colour is to move.
C13_CalledOnlyOnOurLiveTurn ==
  \A t \in Threads :
    pc[t] # "idle" =>
      /\ board[t].legal # <<>>
      /\ ~board[t].dead
      /\ side[t] \in Colours
      /\ board[t].turn = side[t]

\* C13, its case: the bot, playing black, inside pick_move on a board with
\* black to move.
C13_Witness ==
  /\ program = "bot"
  /\ pc[1] = "play"
  /\ side[1] = "black"
  /\ board[1].turn = "black"
  /\ board[1].legal # <<>>

\* The scored candidates that are not more than the threshold below the best
\* score, as indices of the sequence of scored candidates.
Passing(sc) ==
  {i \in 1..Len(sc) :
     \A j \in 1..Len(sc) : sc[i].score >= sc[j].score - config.blunder_threshold_cp}

\* The place of a move in the candidates of the board, in table order.
TablePlace(b, m) ==
  CHOOSE i \in 1..Len(LegalCandidates(b)) : LegalCandidates(b)[i].move = m

\* Candidate i comes first among the indices in set: no other has a larger
\* count, and none with the same count stands earlier in the sequence or in
\* the table.
MostPlayedOf(b, sc, set, i) ==
  /\ i \in set
  /\ \A j \in set :
       /\ sc[j].count <= sc[i].count
       /\ sc[j].count = sc[i].count =>
            (i <= j /\ TablePlace(b, sc[i].move) <= TablePlace(b, sc[j].move))

\* C14, as stated: with filtering active and a candidate scored, the move
\* returned is that of the most played candidate among those scoring at least
\* best - blunder_threshold_cp, the first in order among equal counts.
C14_MostPlayedOfPassing ==
  \A t \in Threads :
    (Finished(t) /\ FilterActive /\ scored[t] # <<>>) =>
      \E i \in 1..Len(scored[t]) :
        /\ MostPlayedOf(board[t], scored[t], Passing(scored[t]), i)
        /\ result[t] = Returned(scored[t][i].move)

\* C14, amended: the same whenever some scored candidate passes, which is
\* always so for blunder_threshold_cp >= 0; when none passes, the move
\* returned is that of the first candidate with the best score.
C14_MostPlayedOfPassingIfAny ==
  \A t \in Threads :
    (Finished(t) /\ FilterActive /\ scored[t] # <<>>) =>
      /\ config.blunder_threshold_cp >= 0 => Passing(scored[t]) # {}
      /\ Passing(scored[t]) # {} =>
           \E i \in 1..Len(scored[t]) :
             /\ MostPlayedOf(board[t], scored[t], Passing(scored[t]), i)
             /\ result[t] = Returned(scored[t][i].move)
      /\ Passing(scored[t]) = {} =>
           \E i \in 1..Len(scored[t]) :
             /\ \A j \in 1..Len(scored[t]) : scored[t][j].score <= scored[t][i].score
             /\ \A j \in 1..(i - 1) : scored[t][j].score < scored[t][i].score
             /\ result[t] = Returned(scored[t][i].move)

\* C14, its case: two scored candidates of equal count, the first in table
\* order exactly at the threshold below the other, and the first returned.
C14_Witness ==
  /\ Finished(1) /\ FilterActive
  /\ Len(scored[1]) = 2
  /\ scored[1][1].count = scored[1][2].count
  /\ scored[1][2].score - scored[1][1].score = config.blunder_threshold_cp
  /\ config.blunder_threshold_cp = DefaultBlunderThreshold
  /\ TablePlace(board[1], scored[1][1].move) < TablePlace(board[1], scored[1][2].move)
  /\ result[1] = Returned(scored[1][1].move)

\* The candidates the table holds for a board: the legal moves of the board
\* that a notation of its row denotes.
PreferenceMoves(b) ==
  {m \in Range(b.legal) :
     /\ b.key \in DOMAIN stats
     /\ \E i \in 1..Len(stats[b.key]) :
          ParseSan(b, stats[b.key][i].san) = [ok |-> TRUE, move |-> m]}

Min2(x, y) == IF x <= y THEN x ELSE y

\* The number of candidates pick_move analyses on a board.
TopCount(b) ==
  Min2(Max2(1, config.max_candidate_moves), Cardinality(PreferenceMoves(b)))

Unavailable == {"raise", "noscore"}

\* C15: with filtering active, when some analyses failed or gave no score and
\* another gave one, every candidate of the top set was still asked about,
\* the scored candidates are exactly those whose analysis gave a score, and
\* the move returned is not that of a candidate whose analysis failed.
C15_FailedCandidatesDropped ==
  \A t \in Threads :
    (Finished(t) /\ FilterActive /\ HasAnswer(t, Unavailable)
       /\ HasAnswer(t, {"score"})) =>
      /\ Len(reqs[t]) = TopCount(board[t])
      /\ \A i \in 1..Len(reqs[t]) : reqs[t][i].op = "analyse"
      /\ {scored[t][k].move : k \in 1..Len(scored[t])}
           = {reqs[t][i].move : i \in {j \in 1..Len(reqs[t]) : reqs[t][j].answer = "score"}}
      /\ result[t].kind = "return"
      /\ \A i \in 1..Len(reqs[t]) :
           reqs[t][i].answer \in Unavailable => result[t].move # reqs[t][i].move

\* C15, its case: the most played candidate's analysis failed, the other
\* candidate was analysed after it and scored, and the other is returned.
C15_Witness ==
  /\ Finished(1) /\ FilterActive
  /\ Len(reqs[1]) = 2
  /\ cands[1][1].count > cands[1][2].count
  /\ reqs[1][1].move = cands[1][1].move /\ reqs[1][1].answer = "raise"
  /\ reqs[1][2].move = cands[1][2].move /\ reqs[1][2].answer = "score"
  /\ result[1] = Returned(cands[1][2].move)

\* C16: whenever the table holds a legal candidate for the position, no
\* best-move request is made in the invocation and the move returned is one
\* of the table's legal candidates.
C16_EvaluatorOnlyVetoes ==
  \A t \in Threads :
    (pc[t] # "idle" /\ PreferenceMoves(board[t]) # {}) =>
      /\ \A i \in 1..Len(reqs[t]) : reqs[t][i].op # "play"
      /\ Finished(t) =>
           (result[t].kind = "return" /\ result[t].move \in PreferenceMoves(board[t]))

\* C16, its case: filtering and fallback both enabled, every analysis failed,
\* and a candidate of the table is returned without a best-move request.
C16_Witness ==
  /\ Finished(1) /\ FilterActive /\ config.use_stockfish_fallback
  /\ Cardinality(PreferenceMoves(board[1])) = 2
  /\ Len(reqs[1]) = 2
  /\ \A i \in 1..2 : reqs[1][i].op = "analyse" /\ reqs[1][i].answer \in Unavailable
  /\ result[1].move \in PreferenceMoves(board[1])

\* C17: without a legal candidate, with fallback enabled and an evaluator
\* configured, pick_move makes one request, a best-move request at the depth
\* the endgame rule gives the position, and returns the move it yields.
C17_OneBestMoveRequestAtFullDepth ==
  \A t \in Threads :
    (pc[t] # "idle" /\ PreferenceMoves(board[t]) = {}
       /\ config.use_stockfish_fallback /\ ~NoEvaluator) =>
      /\ Len(reqs[t]) = 1
      /\ reqs[t][1].op = "play"
      /\ reqs[t][1].depth = RuleDepth(board[t])
      /\ (Finished(t) /\ reqs[t][1].answer = "move") =>
           result[t] = Returned(reqs[t][1].move)

\* C17, its case: a position the table does not hold, at the endgame piece
\* count, asked at the default endgame depth, and the evaluator's move
\* returned.
C17_Witness ==
  /\ Finished(1)
  /\ board[1].key = "novel"
  /\ Len(reqs[1]) = 1
  /\ reqs[1][1].op = "play" /\ reqs[1][1].depth = DefaultEndgameDepth
  /\ reqs[1][1].answer = "move" /\ reqs[1][1].move = "c"
  /\ result[1] = Returned("c")

\* The evaluator gave no move in the invocation: it was not asked, or its
\* best-move request failed or yielded None.
GaveNoMove(t) ==
  \/ reqs[t] = <<>>
  \/ (Len(reqs[t]) = 1 /\ reqs[t][1].op = "play"
        /\ reqs[t][1].answer \in {"raise", "none"})

C20_AnalysisDepthHalvedAtLeastFour ==
  \A t \in Threads : \A i \in 1..Len(reqs[t]) :
    reqs[t][i].op = "analyse" =>
      /\ reqs[t][i].depth >= 4
      /\ \E h \in 0..RuleDepth(board[t]) :
           /\ 2 * h <= RuleDepth(board[t])
           /\ RuleDepth(board[t]) <= 2 * h + 1
           /\ reqs[t][i].depth = IF h >= 4 THEN h ELSE 4

\* C20, its case: a configured depth of 5, whose half rounds down to 2, and
\* an analysis asked at depth 4.
C20_Witness ==
  /\ pc[1] = "analyse"
  /\ RuleDepth(board[1]) = 5
  /\ reqs[1][1].op = "analyse"
  /\ reqs[1][1].depth = 4

\* The number of candidates of the board that come before move m when the
\* candidates are put in descending order of count, table order among equal
\* counts.
Rank(b, m) ==
  Cardinality(
    {j \in 1..Len(LegalCandidates(b)) :
       \/ LegalCandidates(b)[j].count > LegalCandidates(b)[TablePlace(b, m)].count
       \/ /\ LegalCandidates(b)[j].count = LegalCandidates(b)[TablePlace(b, m)].count
          /\ j < TablePlace(b, m)})

\* The requests of an invocation come one at a time, only the last can be
\* pending; there are at most max(1, max_candidate_moves) analyses, and the
\* i-th analyses the candidate that is i-th by count.
OneAtATimeWithinTop(t) ==
  /\ \A i \in 1..(Len(reqs[t]) - 1) : reqs[t][i].answer # "pending"
  /\ pc[t] \in {"analyse", "play"} <=>
       (reqs[t] # <<>> /\ reqs[t][Len(reqs[t])].answer = "pending")
  /\ Cardinality({i \in 1..Len(reqs[t]) : reqs[t][i].op = "analyse"})
       <= (IF config.max_candidate_moves >= 1 THEN config.max_candidate_moves ELSE 1)
  /\ \A i \in 1..Len(reqs[t]) :
       reqs[t][i].op = "analyse" =>
         /\ reqs[t][i].move \in PreferenceMoves(board[t])
         /\ Rank(board[t], reqs[t][i].move) = i - 1

\* C19: an invocation whose evaluator requests are all answered ends; its
\* requests come one at a time, and its analyses are of the top
\* max(1, max_candidate_moves) candidates by count, in descending order.
C19_EndsWithinTopCandidates ==
  /\ [](\A t \in Threads : OneAtATimeWithinTop(t))
  /\ (pc[1] \in {"analyse", "play"}) ~> Finished(1)

\* C19, its case: two candidates and max_candidate_moves 0; the invocation
\* ended after one analysis, of the more played one, listed second.
C19_Witness ==
  /\ Finished(1) /\ config.max_candidate_moves = 0
  /\ Len(LegalCandidates(board[1])) = 2
  /\ LegalCandidates(board[1])[2].count > LegalCandidates(board[1])[1].count
  /\ Len(reqs[1]) = 1
  /\ reqs[1][1].op = "analyse"
  /\ reqs[1][1].move = LegalCandidates(board[1])[2].move

\* The entries of the board's row that resolve to a legal move of the board,
\* each with its count.
ResolvableEntries(b) ==
  IF b.key \notin DOMAIN stats THEN {}
  ELSE {[move |-> ParseSan(b, stats[b.key][i].san).move,
         count |-> stats[b.key][i].count] :
          i \in {j \in 1..Len(stats[b.key]) :
                   /\ ParseSan(b, stats[b.key][j].san).ok
                   /\ ParseSan(b, stats[b.key][j].san).move \in Range(b.legal)}}

\* The same position under a key the table does not hold.
Unknown(b) == [b EXCEPT !.key = "novel"]

\* C21: the entries of a row that do not resolve to a legal move are dropped
\* without an error and the others stay candidates; a position that is not
\* in the table, or whose entries all fail to resolve, raises nothing of its
\* own and makes the requests, and gets the result, of a position without
\* preference data: a best-move request under fallback, the last resort
\* otherwise.
C21_UnresolvableDiscarded ==
  \A t \in Threads :
    pc[t] # "idle" =>
      /\ Range(cands[t]) = ResolvableEntries(board[t])
      /\ Len(cands[t]) = Cardinality(ResolvableEntries(board[t]))
      /\ result[t].kind = "raise" =>
           (board[t].legal = <<>> /\ result[t].error = "ValueError")
      /\ ResolvableEntries(board[t]) = {} =>
           /\ scored[t] = <<>>
           /\ Len(reqs[t]) = Len(StartPick(Unknown(board[t])).reqs)
           /\ \A i \in 1..Len(reqs[t]) :
                /\ reqs[t][i].op = StartPick(Unknown(board[t])).reqs[i].op
                /\ reqs[t][i].depth = StartPick(Unknown(board[t])).reqs[i].depth
           /\ StartPick(Unknown(board[t])).pc = "done" =>
                result[t] = StartPick(Unknown(board[t])).result
           /\ (Finished(t) /\ reqs[t] # <<>>) =>
                \E out \in PlayOutcomes(board[t]) :
                  /\ PlayAnswerKind(out) = reqs[t][1].answer
                  /\ result[t] = OnPlay(Unknown(board[t]), out)

\* C21, its case: a row whose first entry names a move that is illegal on the
\* board and whose second entry resolves; the second is the one candidate and
\* its move is returned.
C21_Witness ==
  /\ Finished(1)
  /\ board[1].key = "end"
  /\ Len(stats["end"]) = 2
  /\ stats["end"][1].san = "sb" /\ stats["end"][2].san = "sa"
  /\ cands[1] = <<[move |-> "a", count |-> stats["end"][2].count]>>
  /\ result[1] = Returned("a")

\* A row whose one entry does not resolve, with fallback enabled: one
\* best-move request, as for an unknown position.
AllUnresolvableAsksEvaluator ==
  /\ Finished(1)
  /\ board[1].key = "mid"
  /\ Len(stats["mid"]) = 1 /\ stats["mid"][1].san = "--"
  /\ Len(reqs[1]) = 1 /\ reqs[1][1].op = "play"
  /\ result[1].kind = "return"

\* What a scored candidate's score says: the mover mates, the mover gets
\* mated, or an evaluation in centipawns.
WinsByMate(x) ==
  \E o \in ScoreOutcomes : o.kind = "mate" /\ o.v <= 0 /\ x.score = ScoreCp(o)
GetsMated(x) ==
  \E o \in ScoreOutcomes : o.kind = "mate" /\ o.v > 0 /\ x.score = ScoreCp(o)
Ordinary(x) ==
  \E o \in ScoreOutcomes : o.kind = "cp" /\ x.score = ScoreCp(o)

Abs(n) == IF n >= 0 THEN n ELSE 0 - n

\* The gap between the mate scores and the ordinary scores of the model.
MateGap ==
  (MateScore - 1) -
    (CHOOSE m \in {Abs(o.v) : o \in {q \in ScoreOutcomes : q.kind = "cp"}} :
       \A o \in {q \in ScoreOutcomes : q.kind = "cp"} : Abs(o.v) <= m)

MatedCandidateAvoided ==
  /\ Finished(1) /\ FilterActive
  /\ config.blunder_threshold_cp = DefaultBlunderThreshold
  /\ Len(scored[1]) = 2
  /\ scored[1][1].count > scored[1][2].count
  /\ GetsMated(scored[1][1])
  /\ Ordinary(scored[1][2])
  /\ result[1] = Returned(scored[1][2].move)

\* Under a threshold larger than the gap the filter lets every candidate
\* pass, and the more played candidate is returned although it gets the
\* mover mated.
MatedCandidateUnderHugeThreshold ==
  /\ Finished(1) /\ FilterActive
  /\ config.blunder_threshold_cp >= MateGap
  /\ Len(scored[1]) = 2
  /\ GetsMated(scored[1][1])
  /\ Ordinary(scored[1][2])
  /\ result[1] = Returned(scored[1][1].move)

\* _from_your_stats, lines 139-142, is where thread t's invocation returned:
\* candidates were scored and none passed the threshold.
GuardTaken(t) ==
  /\ Finished(t) /\ FilterActive
  /\ scored[t] # <<>>
  /\ Filtered(scored[t]) = <<>>

\* C23, as stated: whenever a candidate was scored the filtered set holds the
\* best-scoring candidate, and the guard branch is never taken, whatever
\* blunder_threshold_cp is configured.
C23_GuardNeverTaken ==
  \A t \in Threads :
    (Finished(t) /\ FilterActive /\ scored[t] # <<>>) =>
      /\ scored[t][MaxByScoreIdx(scored[t])] \in Range(Filtered(scored[t]))
      /\ ~GuardTaken(t)

\* C23, amended: the same for every blunder_threshold_cp >= 0; under a
\* negative blunder_threshold_cp no scored candidate passes, the guard branch
\* is taken and returns the first candidate with the best score.
C23_GuardTakenIffNegative ==
  \A t \in Threads :
    (Finished(t) /\ FilterActive /\ scored[t] # <<>>) =>
      /\ config.blunder_threshold_cp >= 0 =>
           /\ scored[t][MaxByScoreIdx(scored[t])] \in Range(Filtered(scored[t]))
           /\ ~GuardTaken(t)
      /\ config.blunder_threshold_cp < 0 =>
           /\ GuardTaken(t)
           /\ result[t] = Returned(scored[t][MaxByScoreIdx(scored[t])].move)

\* C23, its case: under the default threshold two candidates were scored and
\* the best-scoring one, the less played, is the only one that passes.
C23_Witness ==
  /\ Finished(1) /\ FilterActive
  /\ config.blunder_threshold_cp = DefaultBlunderThreshold
  /\ Len(scored[1]) = 2
  /\ scored[1][2].score > scored[1][1].score
  /\ Filtered(scored[1]) = <<scored[1][2]>>
  /\ result[1] = Returned(scored[1][2].move)

\* The last line thread t handled ended the game, by its position or by its
\* status.
HandledGameEnd(t) ==
  seen[t].type # "none" /\ GameEnded(seen[t].board, seen[t].status)

\* C24: once stream_game has handled a gameFull or gameState line whose
\* position or status ends the game, the persisted file holds no entry for
\* that game.
C24_ClearedAtGameEnd ==
  \A t \in Threads : HandledGameEnd(t) => ~chatFile[t].present

\* C25: make_move is called only for a line whose rebuilt board is not game
\* over, in a game the bot plays, with the bot's colour to move; the move
\* sent is the move pick_move returned for that board.
C25_SubmitsPickedMoveOnOwnTurn ==
  [][\A t \in Threads :
       (subm'[t] # subm[t] /\ subm'[t].made) =>
         /\ seen[t].type # "none"
         /\ board[t] = seen[t].board
         /\ ~IsGameOver(board[t])
         /\ side[t] \in Colours
         /\ board[t].turn = side[t]
         /\ pc[t] = "done"
         /\ result[t].kind = "return"
         /\ subm'[t].board = board[t]
         /\ subm'[t].move = result[t].move]_vars

\* C25, its case: the bot plays black, the line left black to move on a
\* position the table does not hold, and the evaluator's move was sent.
C25_Witness ==
  /\ subm[1].made
  /\ side[1] = "black"
  /\ seen[1].type = "gameState"
  /\ subm[1].board = seen[1].board
  /\ subm[1].board.key = "novel"
  /\ subm[1].move = "b"

\* C26: once a line with a terminal status (mate, resign, draw, stalemate,
\* outoftime) was handled, make_move is not called for that game, whichever
\* side is to move.
C26_NoMoveAfterTerminalStatus ==
  \A t \in Threads : subm[t].made => subm[t].status \notin TerminalStatuses

\* C30: the opening messages go out at most once per game, whatever form the
\* opening setting has.
C30_OpeningAtMostOnce ==
  \A t \in Threads : openings[t] <= 1

\* The opening messages go out only while handling a gameFull line with no
\* move played.
OpeningOnlyAtFirstLine ==
  [][\A t \in Threads :
       openings'[t] # openings[t] =>
         /\ seen'[t].type = "gameFull"
         /\ seen'[t].board.stack = <<>>
         /\ openings'[t] = openings[t] + 1]_vars

\* With an opening list of three or more messages the opening goes out at
\* most once per game.
LongOpeningAtMostOnce ==
  \A t \in Threads :
    (chatCfg.opening.t = "list" /\ chatCfg.opening.n >= 3) => openings[t] <= 1


\* C27: the rotation index advances by exactly one, and the new index is
\* persisted, only after a challenge the bot itself sent was accepted and
\* its game started: no advance is caused by a game that started from
\* another player's challenge, and after an advance the file holds the
\* cached index.
C27_AdvancesOnlyOnOwnAcceptedChallenge ==
  /\ advancedBy # "theirs"
  /\ advancedBy # "none" => rotFile = Stored(rotIdx.v)

\* Challenge events, declines and the steps of challenge_loop leave the
\* index as it is; a game start moves it by one or not at all.
IndexMovesOnlyAtGameStart ==
  [][/\ GetRotationIndex(rotIdx', rotFile').v
          \in {GetRotationIndex(rotIdx, rotFile).v,
               GetRotationIndex(rotIdx, rotFile).v + 1}
     /\ GetRotationIndex(rotIdx', rotFile').v # GetRotationIndex(rotIdx, rotFile).v
          => /\ TruthyId(pending)
             /\ pending' = NoId
             /\ loop' = loop
             /\ rotFile' = Stored(rotIdx'.v)]_vars


\* C28: get_current_challenge_config never advances the rotation, so the
\* first challenge the bot sends after its pending challenge was declined,
\* with no advance of the rotation in between, uses the same rotation entry
\* as the declined one, and the entry read is
\* always an element of CHALLENGE_ROTATION, whatever index is stored.
C28_SameEntryAfterDecline ==
  /\ resent.declined # NoEntryRead => resent.sent = resent.declined
  /\ loopEntry # NoEntryRead => loopEntry \in 0..(RotationLen - 1)
  /\ \A f \in RotationFiles :
       GetCurrentChallengeConfig(Unset, f) \in 0..(RotationLen - 1)

\* Reading the current entry leaves the index and the file as they are.
ReadNeverAdvances ==
  [][loop = "top" /\ loop' = "send"
       => /\ rotFile' = rotFile
          /\ GetRotationIndex(rotIdx', rotFile') = GetRotationIndex(rotIdx, rotFile)]_vars

\* The entry read is an element of the list.
EntryAlwaysValid ==
  /\ loopEntry # NoEntryRead => loopEntry \in 0..(RotationLen - 1)
  /\ \A ch \in open : ch.entry \in 0..(RotationLen - 1)


\* C29: the bot has at most one outstanding challenge at a time: after a
\* challenge was sent successfully no further one is sent until it was
\* declined or its game started, so the server never holds two open
\* challenges of the bot.
C29_AtMostOneOutstanding == Cardinality(open) <= 1

\* While challenge_loop is not between sending and storing, the pending id
\* names every challenge the server holds open, so that its decline is
\* recognised.
PendingNamesOutstanding ==
  \A ch \in open : loop = "top" => pending = IdOf(ch.n)

OneShotAtMostOnceInEveryGame ==
  \A t \in Threads : \A m \in OneShots : chats[t][m] <= 1

\* C32: with several games streamed by separate threads, saving or clearing
\* one game's chat state never loses or alters another game's entry: while
\* a thread is between the lines of its unfinished game, the file holds the
\* state the thread saved last, which is its chat_state.
C32_FileHoldsLastSaved ==
  \A t \in Threads :
    (/\ conn[t] = "open"
     /\ filePc[t] = "idle"
     /\ seen[t].type # "none"
     /\ ~GameEnded(seen[t].board, seen[t].status))
      => chatFile[t] = EntryOf(chatState[t])

\* The number of mainline moves read that were played from position k with
\* notation san.
Played(k, san) ==
  Cardinality({i \in 1..Len(mainline) : mainline[i] = <<k, san>>})

\* The count a table stores for a pair, 0 when it has no entry for it.
StoredCount(tb, k, san) ==
  IF k \in DOMAIN tb /\ \E i \in 1..Len(tb[k]) : tb[k][i].san = san
  THEN tb[k][CHOOSE i \in 1..Len(tb[k]) : tb[k][i].san = san].count
  ELSE 0

RECURSIVE SumRow(_)
SumRow(row) == IF row = <<>> THEN 0 ELSE Head(row).count + SumRow(Tail(row))

RECURSIVE SumTable(_, _)
SumTable(tb, ks) ==
  IF ks = {} THEN 0
  ELSE LET k == CHOOSE x \in ks : TRUE IN SumRow(tb[k]) + SumTable(tb, ks \ {k})

\* C33: in the table build_fen_stats returns, the count stored for a
\* position and a notation is the number of mainline moves, over all games,
\* played from that position with that notation; every stored count is
\* positive, no notation is stored twice for a position, and the counts sum
\* to the number of mainline moves.
C33_CountsAreMainlineMoves ==
  trainPc = "built" =>
    /\ \A k \in TrainKeys, san \in Sans :
         StoredCount(fenToMoves, k, san) = Played(k, san)
    /\ \A k \in DOMAIN fenToMoves :
         /\ fenToMoves[k] # <<>>
         /\ DistinctSans(fenToMoves[k])
         /\ \A i \in 1..Len(fenToMoves[k]) :
              /\ fenToMoves[k][i].count >= 1
              /\ fenToMoves[k][i].san \in Sans
    /\ DOMAIN fenToMoves \subseteq TrainKeys
    /\ SumTable(fenToMoves, DOMAIN fenToMoves) = Len(mainline)

\* A table built from several games in which a move was played more than
\* once from one position, another position has two notations, and both
\* positions occur.
C33_Witness ==
  /\ trainPc = "built"
  /\ Len(mainline) = MaxMoves
  /\ DOMAIN fenToMoves = TrainKeys
  /\ \E k \in TrainKeys : \E i \in 1..Len(fenToMoves[k]) : fenToMoves[k][i].count >= 2
  /\ \E k \in TrainKeys : Len(fenToMoves[k]) >= 2

\* The same while the games are still read: the loop's invariant.
CountsFollowTheMainline ==
  \A k \in TrainKeys, san \in Sans : StoredCount(fenToMoves, k, san) = Played(k, san)

\* C34: load_fen_stats applied to the file save_fen_stats wrote for a table
\* of string keys and integer counts succeeds and returns a table equal to
\* the one saved.
C34_SaveThenLoadIsIdentity ==
  /\ trainPc # "load_error"
  /\ trainPc = "loaded" => stats = fenToMoves

\* A table with two positions, a negative and a zero count was saved and
\* loaded.
C34_Witness ==
  /\ trainPc = "loaded"
  /\ DOMAIN fenToMoves = TrainKeys
  /\ \E k \in TrainKeys : \E i \in 1..Len(fenToMoves[k]) : fenToMoves[k][i].count < 0
  /\ \E k \in TrainKeys : \E i \in 1..Len(fenToMoves[k]) : fenToMoves[k][i].count = 0
  /\ \E k \in TrainKeys : Len(fenToMoves[k]) = MaxEntries

============================================================================
